---- MODULE Spec2Model ----
(***************************************************************************)
(* Model of the time entry aggregation of inpeek-toggle-time-summary:      *)
(* src/src/aggregator.ts with the date helpers of src/src/date-utils.ts    *)
(* it calls.                                                               *)
(*                                                                         *)
(* Representation of JavaScript values:                                    *)
(*   - a string the code takes apart, compares or concatenates is a        *)
(*     sequence of one-character strings (<<"W","e","b">>);                *)
(*   - "number | null" and "string | null" values are tagged records       *)
(*     (JsNull, JsNum(n), JsStr(s), JsNaN);                                *)
(*   - an IEEE-754 double that is not an integer is a record [s, m, e]     *)
(*     with s its sign, m its 53-bit significand and e the exponent of the *)
(*     last bit of m: value = s * m * 2^e;                                 *)
(*   - a Map is the sequence of its [key, value] pairs in insertion order. *)
(***************************************************************************)
EXTENDS Integers, Sequences, FiniteSets, TLC

(***************************************************************************)
(* Bounds of the model                                                     *)
(***************************************************************************)
MaxEntries == 3
MaxHoursEntries == 4
MaxDates == 2
MaxClicks == 3
MaxTicks == 4
MaxTodayDays == 7
MaxCustomDays == 5

(***************************************************************************)
(* JavaScript values                                                       *)
(***************************************************************************)
JsNull == [tag |-> "null"]
JsNaN == [tag |-> "NaN"]
JsUndefined == [tag |-> "undefined"]
JsNum(n) == [tag |-> "number", n |-> n]
JsStr(s) == [tag |-> "string", s |-> s]

DigitChars == <<"0", "1", "2", "3", "4", "5", "6", "7", "8", "9">>
IsDigit(c) == \E d \in 1..10 : DigitChars[d] = c
DigitVal(c) == (CHOOSE d \in 1..10 : DigitChars[d] = c) - 1

RECURSIVE NatToString(_)
NatToString(n) ==
  IF n < 10 THEN <<DigitChars[n + 1]>>
  ELSE NatToString(n \div 10) \o <<DigitChars[(n % 10) + 1]>>

\* String(n) / `${n}` for an integer n
NumberToString(n) == IF n < 0 THEN <<"-">> \o NatToString(-n) ELSE NatToString(n)

\* `${v}` for a number | null value
TemplateString(v) ==
  CASE v.tag = "null" -> <<"n", "u", "l", "l">>
    [] v.tag = "NaN" -> <<"N", "a", "N">>
    [] v.tag = "number" -> NumberToString(v.n)
    [] v.tag = "string" -> v.s
    [] OTHER -> <<"u", "n", "d", "e", "f", "i", "n", "e", "d">>

\* s.padStart(2, '0')
PadStart2(s) == IF Len(s) < 2 THEN <<"0">> \o s ELSE s

WhiteSpace == {" ", "\n", "\t"}

\* s.trim()
RECURSIVE TrimStart(_)
TrimStart(s) ==
  IF s # <<>> /\ Head(s) \in WhiteSpace THEN TrimStart(Tail(s)) ELSE s
RECURSIVE TrimEnd(_)
TrimEnd(s) ==
  IF s # <<>> /\ s[Len(s)] \in WhiteSpace THEN TrimEnd(SubSeq(s, 1, Len(s) - 1)) ELSE s
Trim(s) == TrimEnd(TrimStart(s))

\* s.split(sep) for a one-character separator
RECURSIVE SplitLoop(_, _, _, _)
SplitLoop(s, sep, cur, acc) ==
  IF s = <<>> THEN Append(acc, cur)
  ELSE IF Head(s) = sep THEN SplitLoop(Tail(s), sep, <<>>, Append(acc, cur))
  ELSE SplitLoop(Tail(s), sep, Append(cur, Head(s)), acc)
Split(s, sep) == SplitLoop(s, sep, <<>>, <<>>)

\* arr[i] of a destructuring assignment: undefined past the end
ElementAt(arr, i) == IF i <= Len(arr) THEN JsStr(arr[i]) ELSE JsUndefined

\* parseInt(s, 10): optional sign, then the leading digits; NaN without one
RECURSIVE ParseDigits(_, _)
ParseDigits(s, acc) ==
  IF s = <<>> \/ ~IsDigit(Head(s)) THEN acc
  ELSE ParseDigits(Tail(s), acc * 10 + DigitVal(Head(s)))
ParseInt(str) ==
  LET s == TrimStart(str)
      neg == s # <<>> /\ Head(s) = "-"
      body == IF s # <<>> /\ Head(s) \in {"-", "+"} THEN Tail(s) ELSE s
  IN IF body = <<>> \/ ~IsDigit(Head(body)) THEN JsNaN
     ELSE JsNum(IF neg THEN 0 - ParseDigits(body, 0) ELSE ParseDigits(body, 0))

\* arr.join(sep)
RECURSIVE Join(_, _)
Join(arr, sep) ==
  IF arr = <<>> THEN <<>>
  ELSE IF Len(arr) = 1 THEN arr[1]
  ELSE arr[1] \o sep \o Join(Tail(arr), sep)

\* arr.indexOf(x), 1-based; 0 when absent
IndexOf(arr, x) ==
  IF \E i \in 1..Len(arr) : arr[i] = x
  THEN CHOOSE i \in 1..Len(arr) : arr[i] = x /\ \A j \in 1..(i - 1) : arr[j] # x
  ELSE 0

(***************************************************************************)
(* IEEE-754 double arithmetic on the values the code meets (finite).       *)
(* Natural numbers wider than 31 bits are sequences of 12-bit limbs, most  *)
(* significant limb first, without leading zero limbs.                     *)
(***************************************************************************)
SignificandBits == 53
LimbBits == 12
LimbBase == 4096

PowersOfTwo == <<1, 2, 4, 8, 16, 32, 64, 128, 256, 512, 1024, 2048, 4096>>
Pow2(k) == PowersOfTwo[k + 1]

RECURSIVE BigNorm(_)
BigNorm(a) == IF a # <<>> /\ Head(a) = 0 THEN BigNorm(Tail(a)) ELSE a

RECURSIVE BigFromInt(_)
BigFromInt(n) ==
  IF n = 0 THEN <<>> ELSE Append(BigFromInt(n \div LimbBase), n % LimbBase)

RECURSIVE BigToInt(_)
BigToInt(a) ==
  IF a = <<>> THEN 0
  ELSE LimbBase * BigToInt(SubSeq(a, 1, Len(a) - 1)) + a[Len(a)]

\* number of bits of a limb, of a normalised number
LimbLen(x) == CHOOSE k \in 0..LimbBits : (k = 0 \/ Pow2(k - 1) <= x) /\ x < Pow2(k)
BigBitLen(a) == IF a = <<>> THEN 0 ELSE LimbBits * (Len(a) - 1) + LimbLen(a[1])

\* a * 2^k
BigShiftLeft(a, k) ==
  LET s == k % LimbBits
      n == Len(a)
      at(i) == IF i >= 1 /\ i <= n THEN a[i] ELSE 0
      shifted == [i \in 1..(n + 1) |->
                    ((at(i - 1) * Pow2(s)) % LimbBase) + ((at(i) * Pow2(s)) \div LimbBase)]
  IN BigNorm(shifted \o [i \in 1..(k \div LimbBits) |-> 0])

\* floor(a / 2^k)
BigShiftRight(a, k) ==
  LET s == k % LimbBits
      n == Len(a) - (k \div LimbBits)
      at(i) == IF i >= 1 THEN a[i] ELSE 0
  IN IF n <= 0 THEN <<>>
     ELSE BigNorm([i \in 1..n |-> ((at(i - 1) % Pow2(s)) * LimbBase + at(i)) \div Pow2(s)])

\* bit i of a, bit 0 the least significant
BigBit(a, i) ==
  LET pos == Len(a) - (i \div LimbBits)
  IN IF pos < 1 THEN 0 ELSE (a[pos] \div Pow2(i % LimbBits)) % 2

\* whether one of the k low bits of a is set
BigLowBitsSet(a, k) == \E i \in 0..(k - 1) : BigBit(a, i) = 1

\* a + b
RECURSIVE BigAddLoop(_, _, _, _)
BigAddLoop(a, b, carry, acc) ==
  IF a = <<>> /\ b = <<>> THEN (IF carry = 0 THEN <<>> ELSE <<carry>>) \o acc
  ELSE LET x == IF a = <<>> THEN 0 ELSE a[Len(a)]
           y == IF b = <<>> THEN 0 ELSE b[Len(b)]
           t == x + y + carry
       IN BigAddLoop(IF a = <<>> THEN a ELSE SubSeq(a, 1, Len(a) - 1),
                     IF b = <<>> THEN b ELSE SubSeq(b, 1, Len(b) - 1),
                     t \div LimbBase, <<t % LimbBase>> \o acc)
BigAdd(a, b) == BigNorm(BigAddLoop(a, b, 0, <<>>))

\* a * k for a small integer k
RECURSIVE BigMulLoop(_, _, _, _)
BigMulLoop(a, k, carry, acc) ==
  IF a = <<>> THEN BigFromInt(carry) \o acc
  ELSE LET t == a[Len(a)] * k + carry
       IN BigMulLoop(SubSeq(a, 1, Len(a) - 1), k, t \div LimbBase, <<t % LimbBase>> \o acc)
BigMulSmall(a, k) == BigNorm(BigMulLoop(a, k, 0, <<>>))

\* quotient and remainder of a / d for a small integer d
RECURSIVE BigDivLoop(_, _, _, _)
BigDivLoop(a, d, r, acc) ==
  IF a = <<>> THEN [q |-> BigNorm(acc), r |-> r]
  ELSE LET t == r * LimbBase + Head(a)
       IN BigDivLoop(Tail(a), d, t % d, Append(acc, t \div d))
BigDivSmall(a, d) == BigDivLoop(a, d, 0, <<>>)

\* a - b for a >= b
RECURSIVE BigSubLoop(_, _, _, _)
BigSubLoop(a, b, borrow, acc) ==
  IF a = <<>> THEN acc
  ELSE LET y == IF b = <<>> THEN 0 ELSE b[Len(b)]
           t == a[Len(a)] - y - borrow
       IN BigSubLoop(SubSeq(a, 1, Len(a) - 1),
                     IF b = <<>> THEN b ELSE SubSeq(b, 1, Len(b) - 1),
                     IF t < 0 THEN 1 ELSE 0,
                     <<IF t < 0 THEN t + LimbBase ELSE t>> \o acc)
BigSub(a, b) == BigNorm(BigSubLoop(a, b, 0, <<>>))

\* a < b for normalised numbers
RECURSIVE BigLessSameLen(_, _)
BigLessSameLen(a, b) ==
  IF a = <<>> THEN FALSE
  ELSE IF Head(a) # Head(b) THEN Head(a) < Head(b)
  ELSE BigLessSameLen(Tail(a), Tail(b))
BigLess(a, b) == IF Len(a) # Len(b) THEN Len(a) < Len(b) ELSE BigLessSameLen(a, b)

\* A double is [s, m, e]: s its sign (1 or -1), m its 53-bit significand and e
\* the exponent of the last bit of m; its value is s * m * 2^e, and 0 has no
\* significand.
DoubleZero == [s |-> 1, m |-> <<>>, e |-> 0]

\* The double nearest to s * q * 2^e (ties to even); sticky tells that the
\* exact magnitude lies above q * 2^e by less than 2^e.
RoundToDouble(s, q, e, sticky) ==
  LET len == BigBitLen(q)
      drop == len - SignificandBits
  IN IF q = <<>> THEN DoubleZero
     ELSE IF drop <= 0 THEN [s |-> s, m |-> BigShiftLeft(q, 0 - drop), e |-> e + drop]
     ELSE LET kept == BigShiftRight(q, drop)
              guard == BigBit(q, drop - 1)
              below == sticky \/ BigLowBitsSet(q, drop - 1)
              up == guard = 1 /\ (below \/ BigBit(kept, 0) = 1)
              m == IF up THEN BigAdd(kept, <<1>>) ELSE kept
          IN IF BigBitLen(m) > SignificandBits
             THEN [s |-> s, m |-> BigShiftRight(m, 1), e |-> e + drop + 1]
             ELSE [s |-> s, m |-> m, e |-> e + drop]

\* n / d in double arithmetic, n and d integers (exact doubles), 0 < d <= 4096
DoubleDiv(n, d) ==
  LET scaled == BigFromInt(IF n < 0 THEN 0 - n ELSE n) \o <<0, 0, 0, 0, 0, 0>>
      qr == BigDivSmall(scaled, d)
  IN RoundToDouble(IF n < 0 THEN -1 ELSE 1, qr.q, 0 - 6 * LimbBits, qr.r # 0)

\* x * k in double arithmetic, k a small positive integer
DoubleMul(x, k) == RoundToDouble(x.s, BigMulSmall(x.m, k), x.e, FALSE)

\* x + y in double arithmetic
DoubleAdd(x, y) ==
  IF x.m = <<>> THEN y
  ELSE IF y.m = <<>> THEN x
  ELSE LET e == IF x.e < y.e THEN x.e ELSE y.e
           xm == BigShiftLeft(x.m, x.e - e)
           ym == BigShiftLeft(y.m, y.e - e)
       IN IF x.s = y.s THEN RoundToDouble(x.s, BigAdd(xm, ym), e, FALSE)
          ELSE IF BigLess(xm, ym) THEN RoundToDouble(y.s, BigSub(ym, xm), e, FALSE)
          ELSE RoundToDouble(x.s, BigSub(xm, ym), e, FALSE)

\* Math.round(x): floor(x + 0.5), an integer
MathRound(x) ==
  IF x.m = <<>> THEN 0
  ELSE IF x.e >= 0 THEN x.s * BigToInt(BigShiftLeft(x.m, x.e))
  ELSE LET whole == BigToInt(BigShiftRight(x.m, 0 - x.e))
           half == BigBit(x.m, 0 - x.e - 1)
       IN IF x.s = 1 THEN whole + half
          ELSE 0 - (whole + (IF half = 1 /\ BigLowBitsSet(x.m, 0 - x.e - 1) THEN 1 ELSE 0))

(***************************************************************************)
(* Dates (src/src/date-utils.ts).  A Date is the instant [day, ms]: the    *)
(* days since 1970-01-01 and the milliseconds of the day, in UTC; an       *)
(* invalid Date has no time value.  An ISO 8601 datetime of January 2026   *)
(* "2026-01-DDTHH:00:00+ZZ:00" is the record [day, hour, zone].            *)
(***************************************************************************)
\* offset in hours of the local timezone the Date getters use
LocalZoneHours == 1

HourMs == 3600000
DayMs == 24 * HourMs

\* days from 1970-01-01 to 2026-01-01
Epoch2026 == 20454

InvalidDate == [invalid |-> TRUE]
IsValidDate(date) == "day" \in DOMAIN date

\* the day number of year, month (1..12) and day of the proleptic Gregorian
\* calendar, and back
DaysOfCivil(year, month, dayOfMonth) ==
  LET y == IF month <= 2 THEN year - 1 ELSE year
      era == y \div 400
      yoe == y - era * 400
      doy == (153 * (IF month > 2 THEN month - 3 ELSE month + 9) + 2) \div 5 + dayOfMonth - 1
      doe == yoe * 365 + yoe \div 4 - yoe \div 100 + doy
  IN era * 146097 + doe - 719468

\* year, month and day are computed once and then put together
DaysFromCivil(year, month, dayOfMonth) ==
  CHOOSE days \in {DaysOfCivil(y, m, d) : y \in {year}, m \in {month}, d \in {dayOfMonth}} : TRUE

CivilOfShifted(z) ==
  LET era == z \div 146097
      doe == z - era * 146097
      yoe == (doe - doe \div 1460 + doe \div 36524 - doe \div 146096) \div 365
      doy == doe - (365 * yoe + yoe \div 4 - yoe \div 100)
      mp == (5 * doy + 2) \div 153
      month == IF mp < 10 THEN mp + 3 ELSE mp - 9
  IN [year |-> yoe + era * 400 + (IF month <= 2 THEN 1 ELSE 0),
      month |-> month,
      day |-> doy - (153 * mp + 2) \div 5 + 1]

\* the day number is computed once and then taken apart
CivilFromDays(days) == CHOOSE civil \in {CivilOfShifted(z) : z \in {days + 719468}} : TRUE

\* MakeDay of ECMAScript: month from 0, and months and days past their range
\* carry over
MakeDay(year, month, dayOfMonth) ==
  DaysFromCivil(year + month \div 12, (month % 12) + 1, 1) + dayOfMonth - 1

\* the timezone of the process: its offset in hours and, where the clocks are
\* put forward by an hour within the days looked at, the instant from which
\* the offset is one hour more
VARIABLE zone

\* a zone without change of offset
FixedZone == [offset |-> LocalZoneHours, forward |-> InvalidDate]

\* America/Santiago around 2026-09-06: UTC-4 until 04:00 UTC of that day, when
\* local midnight is followed by 01:00 of UTC-3
ForwardDay == DaysFromCivil(2026, 9, 6)
Santiago == [offset |-> -4, forward |-> [day |-> ForwardDay, ms |-> 4 * HourMs]]

NotBefore(a, b) == a.day > b.day \/ (a.day = b.day /\ a.ms >= b.ms)

\* the local day and the milliseconds since local midnight of an instant
LocalTime(date) ==
  LET offset == IF IsValidDate(zone.forward) /\ NotBefore(date, zone.forward)
                THEN zone.offset + 1 ELSE zone.offset
      t == date.ms + offset * HourMs
  IN [day |-> date.day + t \div DayMs, ms |-> t % DayMs]

\* the instant of a local time; a local time that the clocks skip is taken
\* with the offset before the change
FromLocalTime(day, ms) ==
  LET Utc(offset) == LET t == ms - offset * HourMs
                     IN [day |-> day + t \div DayMs, ms |-> t % DayMs]
  IN IF IsValidDate(zone.forward) /\ NotBefore(Utc(zone.offset + 1), zone.forward)
     THEN Utc(zone.offset + 1)
     ELSE Utc(zone.offset)

\* new Date(isoDatetime)
NewDate(iso) ==
  LET t == (iso.hour - iso.zone) * HourMs
  IN [day |-> Epoch2026 + iso.day - 1 + t \div DayMs, ms |-> t % DayMs]

\* date.getFullYear(), date.getMonth(), date.getDate() in the local timezone
GetFullYear(date) == CivilFromDays(LocalTime(date).day).year
GetMonth(date) == CivilFromDays(LocalTime(date).day).month - 1
GetDate(date) == CivilFromDays(LocalTime(date).day).day

\* date.setDate(n) and date.setHours(h, m, s, ms): the other local fields stay
SetDate(date, n) ==
  FromLocalTime(MakeDay(GetFullYear(date), GetMonth(date), n), LocalTime(date).ms)

SetHours(date, hours, minutes, seconds, ms) ==
  FromLocalTime(LocalTime(date).day, ((hours * 60 + minutes) * 60 + seconds) * 1000 + ms)

\* new Date(year, month, dayOfMonth): local midnight
NewDateOf(year, month, dayOfMonth) == FromLocalTime(MakeDay(year, month, dayOfMonth), 0)

formatDate(date) ==
  LET year == GetFullYear(date)
      month == PadStart2(NumberToString(GetMonth(date) + 1))
      day == PadStart2(NumberToString(GetDate(date)))
  IN NumberToString(year) \o <<"-">> \o month \o <<"-">> \o day

extractDate(isoDatetime) == formatDate(NewDate(isoDatetime))

\* a string of the shape DDDD-DD-DD
IsDateShaped(str) ==
  /\ Len(str) = 10
  /\ \A i \in 1..10 : IF i \in {5, 8} THEN str[i] = "-" ELSE IsDigit(str[i])

\* new Date(dateStr + 'T00:00:00'): local midnight of a YYYY-MM-DD string;
\* the month has to be 1..12 and the day 1..31, a day past the end of the
\* month carries over
NewLocalDate(dateStr) ==
  IF ~IsDateShaped(dateStr) THEN InvalidDate
  ELSE LET year == ParseInt(SubSeq(dateStr, 1, 4)).n
           month == ParseInt(SubSeq(dateStr, 6, 7)).n
           dayOfMonth == ParseInt(SubSeq(dateStr, 9, 10)).n
       IN IF month \in 1..12 /\ dayOfMonth \in 1..31
          THEN NewDateOf(year, month - 1, dayOfMonth)
          ELSE InvalidDate

\* date.getDay(): 0 = Sunday; 1970-01-01 is a Thursday
GetDay(date) == (LocalTime(date).day + 4) % 7

getDayName(dateStr) ==
  LET days == <<"Sunday", "Monday", "Tuesday", "Wednesday", "Thursday", "Friday", "Saturday">>
  IN days[GetDay(NewLocalDate(dateStr)) + 1]

\* the date ranges, today being new Date()
getLastCalendarWeek(today) ==
  LET currentDayOfWeek == GetDay(today)
      daysToLastMonday == IF currentDayOfWeek = 0 THEN 6 ELSE currentDayOfWeek + 6
      lastMonday == SetHours(SetDate(today, GetDate(today) - daysToLastMonday), 0, 0, 0, 0)
      lastSunday == SetHours(SetDate(lastMonday, GetDate(lastMonday) + 6), 23, 59, 59, 999)
  IN [start |-> formatDate(lastMonday), end |-> formatDate(lastSunday)]

getCurrentCalendarWeek(today) ==
  LET currentDayOfWeek == GetDay(today)
      daysToThisMonday == IF currentDayOfWeek = 0 THEN 6 ELSE currentDayOfWeek - 1
      thisMonday == SetHours(SetDate(today, GetDate(today) - daysToThisMonday), 0, 0, 0, 0)
      thisSunday == SetHours(SetDate(thisMonday, GetDate(thisMonday) + 6), 23, 59, 59, 999)
  IN [start |-> formatDate(thisMonday), end |-> formatDate(thisSunday)]

getCurrentMonth(today) ==
  LET firstDay == NewDateOf(GetFullYear(today), GetMonth(today), 1)
      lastDay == NewDateOf(GetFullYear(today), GetMonth(today) + 1, 0)
  IN [start |-> formatDate(firstDay), end |-> formatDate(lastDay)]

getLastMonth(today) ==
  LET firstDay == NewDateOf(GetFullYear(today), GetMonth(today) - 1, 1)
      lastDay == NewDateOf(GetFullYear(today), GetMonth(today), 0)
  IN [start |-> formatDate(firstDay), end |-> formatDate(lastDay)]

\* current <= endDate: a comparison with an invalid Date is false
DateLessOrEqual(a, b) ==
  /\ IsValidDate(a) /\ IsValidDate(b)
  /\ \/ a.day < b.day
     \/ a.day = b.day /\ a.ms <= b.ms

(***************************************************************************)
(* Maps in insertion order                                                 *)
(***************************************************************************)
MapHas(map, key) == \E i \in 1..Len(map) : map[i].key = key
MapGet(map, key) == map[CHOOSE i \in 1..Len(map) : map[i].key = key].value
MapSet(map, key, value) ==
  IF MapHas(map, key)
  THEN [i \in 1..Len(map) |-> IF map[i].key = key THEN [key |-> key, value |-> value] ELSE map[i]]
  ELSE Append(map, [key |-> key, value |-> value])

(***************************************************************************)
(* src/src/aggregator.ts                                                   *)
(***************************************************************************)
NoProjectKey == <<"n", "o", "-", "p", "r", "o", "j", "e", "c", "t">>
NoProjectName == <<"N", "o", " ", "P", "r", "o", "j", "e", "c", "t">>
Separator == <<" ", "/", " ", "\n">>

\* variants of the test of line 51: no test at all, and a test that also
\* skips the entries of duration 0
NeverRunning(entry) == FALSE
RunningOrZero(entry) == entry.duration <= 0

\* the test of line 51: a running timer has a negative duration
IsRunning(entry) == entry.duration < 0

\* variant of the key: the date part of the ISO text instead of the local date
GroupKeyOfIsoDate(entry) ==
  LET date == <<"2", "0", "2", "6", "-", "0", "1", "-">>
              \o PadStart2(NumberToString(entry.start.day))
      projectId == IF entry.project_id = JsNull THEN NoProjectKey
                   ELSE TemplateString(entry.project_id)
  IN projectId \o <<"|">> \o date

\* entry.project_id ?? 'no-project', then `${projectId}|${date}`
GroupKey(entry) ==
  LET date == extractDate(entry.start)
      projectId == IF entry.project_id = JsNull THEN NoProjectKey
                   ELSE TemplateString(entry.project_id)
  IN projectId \o <<"|">> \o date

RECURSIVE GroupLoop(_, _)
GroupLoop(entries, grouped) ==
  IF entries = <<>> THEN grouped
  ELSE LET entry == Head(entries)
       IN IF IsRunning(entry) THEN GroupLoop(Tail(entries), grouped)
          ELSE LET key == GroupKey(entry)
                   created == IF ~MapHas(grouped, key) THEN MapSet(grouped, key, <<>>)
                              ELSE grouped
               IN GroupLoop(Tail(entries),
                            MapSet(created, key, Append(MapGet(created, key), entry)))

groupByProjectAndDay(entries) == GroupLoop(entries, <<>>)

\* variant of the first filter: no trim before the test for emptiness
KeepDescriptionUntrimmed(desc) == desc # JsNull /\ desc.s # <<>>

\* .filter(desc => desc !== null && desc.trim() !== '')
KeepDescription(desc) == desc # JsNull /\ Trim(desc.s) # <<>>

\* variants of the second filter: none, and lastIndexOf in place of indexOf
DeduplicateNothing(self) == self
DeduplicateKeepingLast(self) ==
  LET keep == {i \in 1..Len(self) : \A j \in (i + 1)..Len(self) : self[j] # self[i]}
      F[i \in 0..Len(self)] ==
        IF i = 0 THEN <<>>
        ELSE IF i \in keep THEN Append(F[i - 1], self[i]) ELSE F[i - 1]
  IN F[Len(self)]

\* .filter((desc, index, self) => self.indexOf(desc) === index)
Deduplicate(self) ==
  LET keep == {i \in 1..Len(self) : IndexOf(self, self[i]) = i}
      F[i \in 0..Len(self)] ==
        IF i = 0 THEN <<>>
        ELSE IF i \in keep THEN Append(F[i - 1], self[i]) ELSE F[i - 1]
  IN F[Len(self)]

\* the array processDescriptions joins
DescriptionPieces(entries) ==
  LET mapped == [i \in 1..Len(entries) |-> entries[i].description]
      kept == SelectSeq(mapped, KeepDescription)
  IN Deduplicate(kept)

processDescriptions(entries) ==
  LET descriptions == DescriptionPieces(entries)
  IN Join([i \in 1..Len(descriptions) |-> descriptions[i].s], Separator)

RECURSIVE TotalSeconds(_)
TotalSeconds(entries) ==
  IF entries = <<>> THEN 0
  ELSE TotalSeconds(SubSeq(entries, 1, Len(entries) - 1)) + entries[Len(entries)].duration

\* Math.round(hours * 100) of line 94
RoundedHundredths(totalSeconds) ==
  LET hours == DoubleDiv(totalSeconds, 3600)
  IN MathRound(DoubleMul(hours, 100))

\* variant of calculateTotalHours: every entry rounded before the sum
RECURSIVE SumOfRoundedEntries(_)
SumOfRoundedEntries(entries) ==
  IF entries = <<>> THEN 0
  ELSE SumOfRoundedEntries(Tail(entries))
       + MathRound(DoubleMul(DoubleDiv(Head(entries).duration, 3600), 100))

\* The value returned, Math.round(hours * 100) / 100, is the double nearest to
\* n / 100 for the integer n = Math.round(hours * 100); totalHours holds n.
calculateTotalHours(entries) == RoundedHundredths(TotalSeconds(entries))

\* variant of the lookup: by the string of the key, which no numeric id equals
ProjectNameByStringKey(projectId, projectsMap) == NoProjectName

\* projectsMap is a function from the ids it has to their project records
ProjectName(projectId, projectsMap) ==
  IF projectId # JsNull /\ projectId.tag = "number" /\ projectId.n \in DOMAIN projectsMap
  THEN projectsMap[projectId.n].name
  ELSE NoProjectName

SummaryOfGroup(key, groupedEntries, projectsMap) ==
  LET parts == Split(key, "|")
      projectIdStr == ElementAt(parts, 1)
      date == ElementAt(parts, 2)
      projectId == IF projectIdStr = JsStr(NoProjectKey) THEN JsNull
                   ELSE ParseInt(projectIdStr.s)
  IN [projectId |-> projectId,
      projectName |-> ProjectName(projectId, projectsMap),
      date |-> date,
      totalHours |-> calculateTotalHours(groupedEntries),
      descriptions |-> processDescriptions(groupedEntries)]

\* the loop of lines 110-127 over the groups in insertion order
SummariesOf(grouped, projectsMap) ==
  [i \in 1..Len(grouped) |-> SummaryOfGroup(grouped[i].key, grouped[i].value, projectsMap)]

aggregateTimeEntries(entries, projectsMap) ==
  SummariesOf(groupByProjectAndDay(entries), projectsMap)

(***************************************************************************)
(* a.localeCompare(b): the root collation on the characters the model      *)
(* uses.  Strings are compared by the primary weights of their characters  *)
(* (space and punctuation before digits before letters, a letter and its   *)
(* capital alike), ties by case with the small letter first.               *)
(***************************************************************************)
LowerLetters == <<"a", "b", "c", "d", "e", "f", "g", "h", "i", "j", "k", "l", "m",
                  "n", "o", "p", "q", "r", "s", "t", "u", "v", "w", "x", "y", "z">>
UpperLetters == <<"A", "B", "C", "D", "E", "F", "G", "H", "I", "J", "K", "L", "M",
                  "N", "O", "P", "Q", "R", "S", "T", "U", "V", "W", "X", "Y", "Z">>
Punctuation == <<" ", "-", "/", "|">>

PrimaryWeight(c) ==
  IF \E i \in 1..Len(Punctuation) : Punctuation[i] = c
  THEN CHOOSE i \in 1..Len(Punctuation) : Punctuation[i] = c
  ELSE IF IsDigit(c) THEN Len(Punctuation) + 1 + DigitVal(c)
  ELSE IF \E i \in 1..26 : LowerLetters[i] = c
  THEN Len(Punctuation) + 10 + (CHOOSE i \in 1..26 : LowerLetters[i] = c)
  ELSE IF \E i \in 1..26 : UpperLetters[i] = c
  THEN Len(Punctuation) + 10 + (CHOOSE i \in 1..26 : UpperLetters[i] = c)
  ELSE 0

CaseWeight(c) == IF \E i \in 1..26 : UpperLetters[i] = c THEN 1 ELSE 0

\* -1, 0 or 1: lexicographic comparison of two sequences of weights
RECURSIVE CompareWeights(_, _)
CompareWeights(a, b) ==
  IF a = <<>> /\ b = <<>> THEN 0
  ELSE IF a = <<>> THEN -1
  ELSE IF b = <<>> THEN 1
  ELSE IF Head(a) < Head(b) THEN -1
  ELSE IF Head(a) > Head(b) THEN 1
  ELSE CompareWeights(Tail(a), Tail(b))

LocaleCompare(a, b) ==
  LET primary == CompareWeights([i \in 1..Len(a) |-> PrimaryWeight(a[i])],
                                [i \in 1..Len(b) |-> PrimaryWeight(b[i])])
  IN IF primary # 0 THEN primary
     ELSE CompareWeights([i \in 1..Len(a) |-> CaseWeight(a[i])],
                         [i \in 1..Len(b) |-> CaseWeight(b[i])])

\* variants of the comparators: descending order
CompareProjectNameDescending(a, b) == LocaleCompare(b.projectName, a.projectName)
CompareDateDescending(a, b) == LocaleCompare(b.date.s, a.date.s)

CompareProjectName(a, b) == LocaleCompare(a.projectName, b.projectName)
CompareDate(a, b) == LocaleCompare(a.date.s, b.date.s)

\* the comparators handed to sort, named by the field they compare
Compare(by, a, b) ==
  IF by = "projectName" THEN CompareProjectName(a, b) ELSE CompareDate(a, b)

\* Array.prototype.sort is stable: an element goes after the last one that
\* does not compare greater than it
RECURSIVE InsertSorted(_, _, _)
InsertSorted(sorted, x, by) ==
  IF sorted = <<>> THEN <<x>>
  ELSE IF Compare(by, sorted[Len(sorted)], x) <= 0 THEN Append(sorted, x)
  ELSE Append(InsertSorted(SubSeq(sorted, 1, Len(sorted) - 1), x, by), sorted[Len(sorted)])

RECURSIVE SortLoop(_, _, _)
SortLoop(arr, sorted, by) ==
  IF arr = <<>> THEN sorted
  ELSE SortLoop(Tail(arr), InsertSorted(sorted, Head(arr), by), by)

Sort(arr, by) == SortLoop(arr, <<>>, by)

(***************************************************************************)
(* organizeByDay and organizeByProject                                     *)
(***************************************************************************)
\* new Map(allDates.map(date => [date, getDayName(date)])) of src/src/index.ts
DayNamesOf(allDates) ==
  [date \in {allDates[i] : i \in 1..Len(allDates)} |-> getDayName(date)]

\* dayNames.get(date) || ''
DayNameGet(dayNames, date) == IF date \in DOMAIN dayNames THEN dayNames[date] ELSE ""

\* variant of projectsForDay: the matches in the order of the flat list
ProjectsForDayUnsorted(summaries, date) ==
  LET matches(s) == s.date = JsStr(date)
  IN SelectSeq(summaries, matches)

\* variant of projectsForDay: no filter on the date
ProjectsForDayOfAnyDate(summaries, date) == Sort(summaries, "projectName")

ProjectsForDay(summaries, date) ==
  LET matches(s) == s.date = JsStr(date)
  IN Sort(SelectSeq(summaries, matches), "projectName")

\* variant of organizeByDay: a date without summaries is left out
organizeByDaySkippingEmpty(summaries, allDates, dayNames) ==
  LET hasProjects(date) == \E i \in 1..Len(summaries) : summaries[i].date = JsStr(date)
      kept == SelectSeq(allDates, hasProjects)
  IN [i \in 1..Len(kept) |->
        [date |-> kept[i],
         dayName |-> DayNameGet(dayNames, kept[i]),
         projects |-> ProjectsForDay(summaries, kept[i])]]

organizeByDay(summaries, allDates, dayNames) ==
  [i \in 1..Len(allDates) |->
     [date |-> allDates[i],
      dayName |-> DayNameGet(dayNames, allDates[i]),
      projects |-> ProjectsForDay(summaries, allDates[i])]]

\* variant of the key: the project name alone, under the id of "no project"
ProjectKeyByName(summary) ==
  TemplateString(JsNull) \o <<"|">> \o summary.projectName

ProjectKey(summary) ==
  TemplateString(summary.projectId) \o <<"|">> \o summary.projectName

RECURSIVE ProjectMapLoop(_, _)
ProjectMapLoop(summaries, projectMap) ==
  IF summaries = <<>> THEN projectMap
  ELSE LET summary == Head(summaries)
           key == ProjectKey(summary)
           created == IF ~MapHas(projectMap, key) THEN MapSet(projectMap, key, <<>>)
                      ELSE projectMap
       IN ProjectMapLoop(Tail(summaries),
                         MapSet(created, key, Append(MapGet(created, key), summary)))

DayEntryOf(pd, dayNames) ==
  [date |-> pd.date,
   dayName |-> IF pd.date.tag = "string" THEN DayNameGet(dayNames, pd.date.s) ELSE "",
   totalHours |-> pd.totalHours,
   descriptions |-> pd.descriptions]

\* variant of the reduction: the accumulator is overwritten, not added to
SumTotalHoursOfLastDay(days) ==
  IF days = <<>> THEN DoubleZero ELSE DoubleDiv(days[Len(days)].totalHours, 100)

\* days.reduce((sum, day) => sum + day.totalHours, 0) on the doubles n / 100
RECURSIVE SumTotalHours(_)
SumTotalHours(days) ==
  IF days = <<>> THEN DoubleZero
  ELSE DoubleAdd(SumTotalHours(SubSeq(days, 1, Len(days) - 1)),
                 DoubleDiv(days[Len(days)].totalHours, 100))

ProjectSummaryOf(key, projectDays, dayNames) ==
  LET parts == Split(key, "|")
      projectIdStr == ElementAt(parts, 1)
      projectName == ElementAt(parts, 2)
      projectId == IF projectIdStr = JsStr(<<"n", "u", "l", "l">>) THEN JsNull
                   ELSE ParseInt(projectIdStr.s)
      sortedDays == Sort(projectDays, "date")
      days == [i \in 1..Len(sortedDays) |-> DayEntryOf(sortedDays[i], dayNames)]
      totalHours == SumTotalHours(days)
  IN [projectId |-> projectId,
      projectName |-> projectName.s,
      days |-> days,
      totalHours |-> MathRound(DoubleMul(totalHours, 100))]

\* variant of organizeByProject: every project gets a day entry for every date
\* of allDates, as the day view does
organizeByProjectForAllDates(summaries, allDates, dayNames) ==
  LET projectMap == ProjectMapLoop(summaries, <<>>)
      withAllDates(ps) ==
        LET missing(date) == \A j \in 1..Len(ps.days) : ps.days[j].date # JsStr(date)
            dates == SelectSeq(allDates, missing)
        IN [ps EXCEPT !.days = ps.days \o
              [i \in 1..Len(dates) |->
                 [date |-> JsStr(dates[i]), dayName |-> DayNameGet(dayNames, dates[i]),
                  totalHours |-> 0, descriptions |-> <<>>]]]
      projectSummaries ==
        [i \in 1..Len(projectMap) |->
           withAllDates(ProjectSummaryOf(projectMap[i].key, projectMap[i].value, dayNames))]
  IN Sort(projectSummaries, "projectName")

organizeByProject(summaries, allDates, dayNames) ==
  LET projectMap == ProjectMapLoop(summaries, <<>>)
      projectSummaries ==
        [i \in 1..Len(projectMap) |->
           ProjectSummaryOf(projectMap[i].key, projectMap[i].value, dayNames)]
  IN Sort(projectSummaries, "projectName")

(***************************************************************************)
(* The page (src/unnamed/part_002): the clickable elements the two views   *)
(* render, and the copy script that runs in the browser                    *)
(***************************************************************************)
\* totalHours.toFixed(2) of the double n / 100, n >= 0
ToFixed2(n) == NatToString(n \div 100) \o <<".">> \o PadStart2(NatToString(n % 100))

HtmlEntities ==
  << [char |-> "&", entity |-> <<"&", "a", "m", "p", ";">>],
     [char |-> "<", entity |-> <<"&", "l", "t", ";">>],
     [char |-> ">", entity |-> <<"&", "g", "t", ";">>],
     [char |-> "\"", entity |-> <<"&", "q", "u", "o", "t", ";">>],
     [char |-> "'", entity |-> <<"&", "#", "0", "3", "9", ";">>] >>

RECURSIVE escapeHtml(_)
escapeHtml(text) ==
  IF text = <<>> THEN <<>>
  ELSE (IF \E k \in 1..Len(HtmlEntities) : HtmlEntities[k].char = Head(text)
        THEN HtmlEntities[CHOOSE k \in 1..Len(HtmlEntities) : HtmlEntities[k].char = Head(text)].entity
        ELSE <<Head(text)>>) \o escapeHtml(Tail(text))

StartsWith(str, prefix) ==
  Len(str) >= Len(prefix) /\ SubSeq(str, 1, Len(prefix)) = prefix

\* the value the HTML parser gives an attribute written between double
\* quotes: the character references are replaced by their characters
RECURSIVE AttributeValue(_)
AttributeValue(str) ==
  IF str = <<>> THEN <<>>
  ELSE IF \E k \in 1..Len(HtmlEntities) : StartsWith(str, HtmlEntities[k].entity)
  THEN LET k == CHOOSE n \in 1..Len(HtmlEntities) : StartsWith(str, HtmlEntities[n].entity)
       IN <<HtmlEntities[k].char>>
            \o AttributeValue(SubSeq(str, Len(HtmlEntities[k].entity) + 1, Len(str)))
  ELSE <<Head(str)>> \o AttributeValue(Tail(str))

\* the dataset of a clickable element (data-id, data-time, data-description)
\* and of the time badge inside it (data-time)
Dataset(id, totalHours, descriptions) ==
  [id |-> id,
   time |-> ToFixed2(totalHours),
   description |-> AttributeValue(escapeHtml(descriptions)),
   badge |-> [time |-> ToFixed2(totalHours)]]

renderProjectCard(projectName, totalHours, descriptions, cardId) ==
  Dataset(cardId, totalHours, descriptions)

renderDaySection(daySummary) ==
  [i \in 1..Len(daySummary.projects) |->
     LET p == daySummary.projects[i]
     IN renderProjectCard(p.projectName, p.totalHours, p.descriptions,
                          <<"d", "a", "y", "-">> \o daySummary.date
                            \o <<"-", "p", "r", "o", "j", "e", "c", "t", "-">>
                            \o NatToString(i - 1))]

renderDayEntry(dayName, date, totalHours, descriptions, entryId) ==
  Dataset(entryId, totalHours, descriptions)

renderProjectSection(projectSummary) ==
  [i \in 1..Len(projectSummary.days) |->
     LET d == projectSummary.days[i]
     IN renderDayEntry(d.dayName, d.date, d.totalHours, d.descriptions,
                       <<"p", "r", "o", "j", "e", "c", "t", "-">> \o projectSummary.projectName
                         \o <<"-", "d", "a", "y", "-">> \o NatToString(i - 1))]

\* the elements of the sections one after the other, in document order
RECURSIVE JoinSections(_)
JoinSections(sections) ==
  IF sections = <<>> THEN <<>> ELSE Head(sections) \o JoinSections(Tail(sections))

renderDayView(daySummaries) ==
  JoinSections([i \in 1..Len(daySummaries) |-> renderDaySection(daySummaries[i])])

renderProjectView(projectSummaries) ==
  JoinSections([i \in 1..Len(projectSummaries) |-> renderProjectSection(projectSummaries[i])])

\* the second-click window and the delay of the reset timer, in milliseconds
ClickWindow == 1000
ResetDelay == 1000

\* clickState.delete(key)
MapDelete(map, key) == LET other(entry) == entry.key # key IN SelectSeq(map, other)

\* copyToClipboard(text): nothing is written for an empty text; the clipboard
\* accepts every write
copyToClipboard(text, board) == IF text = <<>> THEN board ELSE JsStr(text)

\* document.querySelector('[data-id="..."]'): the first element with the id
QuerySelector(elements, elementId) ==
  CHOOSE i \in 1..Len(elements) :
    /\ elements[i].id = elementId
    /\ \A k \in 1..(i - 1) : elements[k].id # elementId

(***************************************************************************)
(* Inputs of the model                                                     *)
(***************************************************************************)
Web == <<"W", "e", "b">>
PipeName == <<"A", "|", "B">>
DescA == <<"A">>
DescB == <<"B">>
DescC == <<"C">>
DescSpaceA == <<" ", "A">>
DescBlank == <<" ">>

\* the lookups built from fetchAllProjects: id 12 is unknown to the first
ProjectsWeb == [id \in {7} |-> [id |-> id, name |-> Web]]
ProjectsBoth == [id \in {7, 12} |-> [id |-> id, name |-> IF id = 7 THEN Web ELSE PipeName]]
ProjectMaps == {ProjectsWeb, ProjectsBoth}
\* a workspace without projects: every id of an entry is unknown
ProjectsNone == [id \in {} |-> [id |-> id, name |-> Web]]

\* 09:00Z on the 12th, 23:00Z on the 12th (the 13th in local time), 10:00Z on the 13th
Start12 == [day |-> 12, hour |-> 9, zone |-> 0]
Start12Late == [day |-> 12, hour |-> 23, zone |-> 0]
Start13 == [day |-> 13, hour |-> 10, zone |-> 0]

Kind(projectId, start, duration, description) ==
  [project_id |-> projectId, start |-> start, duration |-> duration,
   description |-> description]

EntryKinds ==
  { Kind(JsNull, Start12, 1800, JsStr(DescA)),
    Kind(JsNum(7), Start12Late, 0, JsNull),
    Kind(JsNum(7), Start13, 1800, JsStr(DescB)),
    Kind(JsNum(12), Start13, 1800, JsStr(DescA)),
    Kind(JsNull, Start13, -5, JsStr(DescA)),
    Kind(JsNum(7), Start13, -5, JsStr(DescC)) }

HoursKinds ==
  { Kind(JsNull, Start12, 18, JsNull),
    Kind(JsNum(7), Start12, 18, JsNull),
    Kind(JsNull, Start13, 18, JsNull),
    Kind(JsNum(7), Start13, 18, JsNull),
    Kind(JsNum(7), Start12, 522, JsNull) }

DescKinds ==
  { Kind(JsNum(7), Start12, 1800, JsNull),
    Kind(JsNum(7), Start12, 1800, JsStr(<<>>)),
    Kind(JsNum(7), Start12, 1800, JsStr(DescBlank)),
    Kind(JsNum(7), Start12, 1800, JsStr(DescA)),
    Kind(JsNum(7), Start12, 1800, JsStr(DescSpaceA)),
    Kind(JsNum(7), Start12, 1800, JsStr(DescB)),
    Kind(JsNull, Start12, 1800, JsStr(DescA)) }

\* two entries of one (project, date) pair with different descriptions, a
\* project on two dates, and ids null and 12 that both show as "No Project"
PivotKinds ==
  { Kind(JsNull, Start12, 1800, JsStr(DescA)),
    Kind(JsNull, Start13, 1800, JsStr(DescB)),
    Kind(JsNull, Start13, 1800, JsStr(DescA)),
    Kind(JsNum(12), Start13, 1800, JsStr(DescA)),
    Kind(JsNum(7), Start13, 1800, JsStr(DescB)),
    Kind(JsNum(7), Start12, 1800, JsNull) }

\* the same pair with two descriptions, and two ids shown under one name
OrderKinds ==
  { Kind(JsNull, Start12, 1800, JsStr(DescA)),
    Kind(JsNull, Start13, 1800, JsStr(DescB)),
    Kind(JsNull, Start13, 1800, JsStr(DescA)),
    Kind(JsNum(12), Start13, 1800, JsStr(DescA)),
    Kind(JsNum(7), Start13, 1800, JsStr(DescB)) }

\* the entries behind the page: two cards, one of them without description,
\* of two ids that are both shown as "No Project"
DescAmp == <<"A", "&", "B">>
PageKinds ==
  << Kind(JsNull, Start13, 1800, JsStr(DescAmp)),
     Kind(JsNum(12), Start13, 522, JsNull) >>

Date13 == <<"2", "0", "2", "6", "-", "0", "1", "-", "1", "3">>
Date14 == <<"2", "0", "2", "6", "-", "0", "1", "-", "1", "4">>
RangeDates == {Date13, Date14}

SeqsUpTo(S, n) == UNION {[1..m -> S] : m \in 0..n}

\* the fetched entries: entry i of the list has id i
EntriesOf(kinds) ==
  [i \in 1..Len(kinds) |->
     [id |-> i, project_id |-> kinds[i].project_id, start |-> kinds[i].start,
      duration |-> kinds[i].duration, description |-> kinds[i].description]]

(***************************************************************************)
(* The state: the inputs and locals of the request handler of              *)
(* src/src/index.ts and the values the three exported functions return     *)
(***************************************************************************)
VARIABLES entries, projectsMap, grouped, summaries, allDates, dayNames,
          daySummaries, projectSummaries, pc

\* The state of the page in the browser: the clickable elements of the
\* document, the Map clickState of the script, the pending timeouts, the
\* handle the next setTimeout returns, the clipboard, the node and text of the
\* message shown last, and the clock (Date.now(), in ms since the page was
\* loaded, counted in ticks).  clickLog is the history of the clicks: target,
\* element, time, and the clipboard after the click.
VARIABLES cards, clickState, timers, nextTimer, clipboard, feedback, now, clickLog

\* The date range of the request: the instant new Date() returns, the query
\* parameters range, start, end and view, the range getDateRange returns and
\* the locals current, endDate and dates of getDatesInRange while it runs.
VARIABLES today, query, dateRange, loop

rangeVars == <<today, query, dateRange, loop, zone>>

handlerVars == <<entries, projectsMap, grouped, summaries, allDates, dayNames,
                 daySummaries, projectSummaries, pc>>
pageVars == <<cards, clickState, timers, nextTimer, clipboard, feedback, now, clickLog>>

vars == <<entries, projectsMap, grouped, summaries, allDates, dayNames,
          daySummaries, projectSummaries, pc,
          cards, clickState, timers, nextTimer, clipboard, feedback, now, clickLog,
          today, query, dateRange, loop, zone>>

\* no date range was computed
NoRange ==
  /\ zone = FixedZone
  /\ today = InvalidDate
  /\ query = <<>>
  /\ dateRange = <<>>
  /\ loop = <<>>

\* the page before any click
InitPage(elements) ==
  /\ cards = elements
  /\ clickState = <<>>
  /\ timers = {}
  /\ nextTimer = 1
  /\ clipboard = JsUndefined
  /\ feedback = <<>>
  /\ now = 0
  /\ clickLog = <<>>

InitWith(kinds, maxEntries, maps) ==
  /\ NoRange
  /\ \E ks \in SeqsUpTo(kinds, maxEntries) : entries = EntriesOf(ks)
  /\ projectsMap \in maps
  /\ grouped = <<>>
  /\ summaries = <<>>
  /\ allDates = <<>>
  /\ dayNames = <<>>
  /\ daySummaries = <<>>
  /\ projectSummaries = <<>>
  /\ pc = "fetched"
  /\ InitPage(<<>>)

Init == InitWith(EntryKinds, MaxEntries, ProjectMaps)
InitHours == InitWith(HoursKinds, MaxHoursEntries, {ProjectsWeb})
InitDesc == InitWith(DescKinds, MaxEntries, {ProjectsWeb})
InitPivot == InitWith(PivotKinds, MaxEntries, ProjectMaps)
InitOrder == InitWith(OrderKinds, MaxEntries, {ProjectsWeb})
InitNames == InitWith(OrderKinds, MaxEntries, {ProjectsNone, ProjectsWeb})

\* const summaries = aggregateTimeEntries(timeEntries, projectsMap)
Aggregate ==
  /\ pc = "fetched"
  /\ grouped' = groupByProjectAndDay(entries)
  /\ summaries' = aggregateTimeEntries(entries, projectsMap)
  /\ pc' = "aggregated"
  /\ UNCHANGED <<entries, projectsMap, allDates, dayNames, daySummaries, projectSummaries>>
  /\ UNCHANGED pageVars
  /\ UNCHANGED rangeVars

\* view by-day: organizeByDay(summaries, allDates, dayNames)
OrganizeByDay ==
  /\ pc = "aggregated"
  /\ \E dates \in SeqsUpTo(RangeDates, MaxDates) :
       /\ allDates' = dates
       /\ dayNames' = DayNamesOf(dates)
       /\ daySummaries' = organizeByDay(summaries, dates, DayNamesOf(dates))
  /\ pc' = "byDay"
  /\ UNCHANGED <<entries, projectsMap, grouped, summaries, projectSummaries>>
  /\ UNCHANGED pageVars
  /\ UNCHANGED rangeVars

\* view by-project: organizeByProject(summaries, allDates, dayNames)
OrganizeByProject ==
  /\ pc = "aggregated"
  /\ \E dates \in SeqsUpTo(RangeDates, MaxDates) :
       /\ allDates' = dates
       /\ dayNames' = DayNamesOf(dates)
       /\ projectSummaries' = organizeByProject(summaries, dates, DayNamesOf(dates))
  /\ pc' = "byProject"
  /\ UNCHANGED <<entries, projectsMap, grouped, summaries, daySummaries>>
  /\ UNCHANGED pageVars
  /\ UNCHANGED rangeVars

Next == Aggregate \/ OrganizeByDay \/ OrganizeByProject

Spec == Init /\ [][Next]_vars
SpecHours == InitHours /\ [][Next]_vars
SpecDesc == InitDesc /\ [][Next]_vars
SpecPivot == InitPivot /\ [][Next]_vars
SpecOrder == InitOrder /\ [][Next]_vars
SpecNames == InitNames /\ [][Next]_vars

\* The page of one request, loaded in the browser: the view asked for is
\* rendered from the entries of the request
InitClick ==
  \E view \in {"by-day", "by-project"} :
    LET flat == aggregateTimeEntries(EntriesOf(PageKinds), ProjectsWeb)
        dates == <<Date13>>
        byDay == organizeByDay(flat, dates, DayNamesOf(dates))
        byProject == organizeByProject(flat, dates, DayNamesOf(dates))
    IN /\ NoRange
       /\ entries = EntriesOf(PageKinds)
       /\ projectsMap = ProjectsWeb
       /\ grouped = groupByProjectAndDay(entries)
       /\ summaries = flat
       /\ allDates = dates
       /\ dayNames = DayNamesOf(dates)
       /\ daySummaries = IF view = "by-day" THEN byDay ELSE <<>>
       /\ projectSummaries = IF view = "by-project" THEN byProject ELSE <<>>
       /\ pc = "loaded"
       /\ InitPage(IF view = "by-day" THEN renderDayView(byDay)
                   ELSE renderProjectView(byProject))

\* length of a tick of the clock
TickMs == ClickWindow \div 2

\* what a click adds to the history
Clicked(target, i, board) ==
  Append(clickLog, [target |-> target, card |-> i, at |-> now, clipboard |-> board])

\* handleCopy(elementId, time, description)
handleCopy(elementId, time, description) ==
  LET hasState == MapHas(clickState, elementId)
      state == MapGet(clickState, elementId)
      \* clearTimeout(state.timeout)
      kept == IF hasState THEN {t \in timers : t.handle # state.timeout} ELSE timers
  IN IF hasState /\ now - state.lastClick < ClickWindow
     THEN /\ clipboard' = copyToClipboard(time, clipboard)
          /\ feedback' = <<"card", QuerySelector(cards, elementId), "Time copied!">>
          /\ timers' = kept
          /\ UNCHANGED <<clickState, nextTimer>>
     ELSE /\ clipboard' = copyToClipboard(description, clipboard)
          /\ feedback' = <<"card", QuerySelector(cards, elementId), "Description copied!">>
          /\ timers' = kept \cup {[handle |-> nextTimer, elementId |-> elementId,
                                   due |-> now + ResetDelay]}
          /\ nextTimer' = nextTimer + 1
          /\ clickState' = MapSet(MapDelete(clickState, elementId), elementId,
                                  [lastClick |-> now, timeout |-> nextTimer])

\* a click on a .project-card or .day-entry outside its time badge
CardClick ==
  /\ Len(clickLog) < MaxClicks
  /\ \E i \in 1..Len(cards) :
       /\ handleCopy(cards[i].id, cards[i].time, cards[i].description)
       /\ clickLog' = Clicked("card", i, clipboard')
  /\ UNCHANGED <<cards, now>>
  /\ UNCHANGED handlerVars
  /\ UNCHANGED rangeVars

\* variant of the click on a badge: it is handled as a click on the element
\* around the badge
BadgeClickAsCardClick ==
  /\ Len(clickLog) < MaxClicks
  /\ \E i \in 1..Len(cards) :
       /\ handleCopy(cards[i].id, cards[i].time, cards[i].description)
       /\ clickLog' = Clicked("badge", i, clipboard')
  /\ UNCHANGED <<cards, now>>
  /\ UNCHANGED handlerVars
  /\ UNCHANGED rangeVars

\* a click on a .project-hours or .day-entry-hours badge: stopPropagation
\* keeps the click from the listener of the element around it
BadgeClick ==
  /\ Len(clickLog) < MaxClicks
  /\ \E i \in 1..Len(cards) :
       /\ clipboard' = copyToClipboard(cards[i].badge.time, clipboard)
       /\ feedback' = <<"badge", i, "Time copied!">>
       /\ clickLog' = Clicked("badge", i, clipboard')
  /\ UNCHANGED <<cards, clickState, timers, nextTimer, now>>
  /\ UNCHANGED handlerVars
  /\ UNCHANGED rangeVars

\* the callback of setTimeout in handleCopy, not before it is due
ResetTimeout ==
  /\ \E t \in timers :
       /\ now >= t.due
       /\ clickState' = MapDelete(clickState, t.elementId)
       /\ timers' = timers \ {t}
  /\ UNCHANGED <<cards, nextTimer, clipboard, feedback, now, clickLog>>
  /\ UNCHANGED handlerVars
  /\ UNCHANGED rangeVars

\* time passes
Tick ==
  /\ now < MaxTicks * TickMs
  /\ now' = now + TickMs
  /\ UNCHANGED <<cards, clickState, timers, nextTimer, clipboard, feedback, clickLog>>
  /\ UNCHANGED handlerVars
  /\ UNCHANGED rangeVars

NextClick == CardClick \/ BadgeClick \/ ResetTimeout \/ Tick

SpecClick == InitClick /\ [][NextClick]_vars

(***************************************************************************)
(* The date range of a request: getDateRange and getDatesInRange           *)
(***************************************************************************)
\* new Date() on the days around the turn of the year, an hour and a day
\* minus an hour after midnight UTC
FirstToday == DaysFromCivil(2025, 12, 29)
Todays ==
  {[day |-> FirstToday + k, ms |-> h * HourMs] : k \in 0..MaxTodayDays, h \in {0, 23}}

\* the start and end a request can carry: dates around the end of February,
\* a string that is no date, or nothing
FirstCustomDay == DaysFromCivil(2026, 2, 26)
DateString(day) ==
  LET civil == CivilFromDays(day)
  IN NatToString(civil.year) \o <<"-">> \o PadStart2(NatToString(civil.month))
       \o <<"-">> \o PadStart2(NatToString(civil.day))
CustomDates == {DateString(FirstCustomDay + k) : k \in 0..MaxCustomDays}
NoDate == <<"x">>
CustomStrings == CustomDates \cup {NoDate, <<>>}

\* the dates around the day the clocks of America/Santiago are put forward
ForwardDates == {DateString(ForwardDay - 2 + k) : k \in 0..MaxCustomDays}

RangeNames == {"", "last-week", "current-week", "current-month", "last-month"}
Views == {"by-day", "by-project"}

Queries ==
  {[range |-> r, start |-> <<>>, end |-> <<>>, view |-> v] : r \in RangeNames, v \in Views}
    \cup {[range |-> "custom", start |-> a, end |-> b, view |-> v] :
            a \in CustomStrings, b \in CustomStrings, v \in Views}

\* a request: today matters only where a week or a month is computed from it
InitRange ==
  /\ zone \in {FixedZone, Santiago}
  /\ query \in IF zone = FixedZone THEN Queries
               ELSE {[range |-> "custom", start |-> a, end |-> b, view |-> v] :
                       a \in ForwardDates, b \in ForwardDates, v \in Views}
  /\ today \in Todays
  /\ (query.start # <<>> /\ query.end # <<>>) => today = [day |-> FirstToday, ms |-> 0]
  /\ dateRange = <<>>
  /\ loop = <<>>
  /\ entries = EntriesOf(PageKinds)
  /\ projectsMap = ProjectsWeb
  /\ grouped = <<>>
  /\ summaries = <<>>
  /\ allDates = <<>>
  /\ dayNames = <<>>
  /\ daySummaries = <<>>
  /\ projectSummaries = <<>>
  /\ pc = "request"
  /\ InitPage(<<>>)

\* getDateRange(req)
getDateRange(req, date) ==
  LET range == IF req.range = "" THEN "last-week" ELSE req.range
  IN CASE range = "current-week" -> getCurrentCalendarWeek(date)
       [] range = "current-month" -> getCurrentMonth(date)
       [] range = "last-month" -> getLastMonth(date)
       [] range = "custom" ->
            IF req.start # <<>> /\ req.end # <<>>
            THEN [start |-> req.start, end |-> req.end]
            ELSE getLastCalendarWeek(date)
       [] OTHER -> getLastCalendarWeek(date)

GetDateRange ==
  /\ pc = "request"
  /\ dateRange' = getDateRange(query, today)
  /\ pc' = "fetched"
  /\ UNCHANGED <<entries, projectsMap, grouped, summaries, allDates, dayNames,
                 daySummaries, projectSummaries, today, query, loop, zone>>
  /\ UNCHANGED pageVars

\* getDatesInRange(dateRange.start, dateRange.end): the locals before the loop
GetDatesInRange ==
  /\ pc = "aggregated"
  /\ loop' = [current |-> NewLocalDate(dateRange.start),
              endDate |-> NewLocalDate(dateRange.end),
              dates |-> <<>>]
  /\ pc' = "dates"
  /\ UNCHANGED <<today, query, dateRange, zone>>
  /\ UNCHANGED <<entries, projectsMap, grouped, summaries, allDates, dayNames,
                 daySummaries, projectSummaries>>
  /\ UNCHANGED pageVars

\* one turn of while (current <= endDate)
PushDate ==
  /\ pc = "dates"
  /\ DateLessOrEqual(loop.current, loop.endDate)
  /\ loop' = [loop EXCEPT !.dates = Append(@, formatDate(loop.current)),
                          !.current = SetDate(loop.current, GetDate(loop.current) + 1)]
  /\ UNCHANGED <<today, query, dateRange, zone, pc>>
  /\ UNCHANGED <<entries, projectsMap, grouped, summaries, allDates, dayNames,
                 daySummaries, projectSummaries>>
  /\ UNCHANGED pageVars

\* return dates, and the Map dayNames of the handler
ReturnDates ==
  /\ pc = "dates"
  /\ ~DateLessOrEqual(loop.current, loop.endDate)
  /\ allDates' = loop.dates
  /\ dayNames' = DayNamesOf(loop.dates)
  /\ loop' = <<>>
  /\ pc' = "ranged"
  /\ UNCHANGED <<entries, projectsMap, grouped, summaries, daySummaries, projectSummaries,
                 today, query, dateRange, zone>>
  /\ UNCHANGED pageVars

\* the view asked for is organized, rendered and sent
Respond ==
  /\ pc = "ranged"
  /\ IF query.view = "by-project"
     THEN /\ projectSummaries' = organizeByProject(summaries, allDates, dayNames)
          /\ cards' = renderProjectView(projectSummaries')
          /\ pc' = "byProject"
          /\ UNCHANGED daySummaries
     ELSE /\ daySummaries' = organizeByDay(summaries, allDates, dayNames)
          /\ cards' = renderDayView(daySummaries')
          /\ pc' = "byDay"
          /\ UNCHANGED projectSummaries
  /\ UNCHANGED <<entries, projectsMap, grouped, summaries, allDates, dayNames>>
  /\ UNCHANGED <<clickState, timers, nextTimer, clipboard, feedback, now, clickLog>>
  /\ UNCHANGED rangeVars

NextRange == GetDateRange \/ Aggregate \/ GetDatesInRange \/ PushDate \/ ReturnDates \/ Respond

SpecRange == InitRange /\ [][NextRange]_vars

\* a loop that can take its next step takes it
SpecRangeFair == SpecRange /\ WF_vars(PushDate) /\ WF_vars(ReturnDates)

(***************************************************************************)
(* Properties                                                              *)
(***************************************************************************)
NotRunning(entry) == entry.duration >= 0
NonRunningEntries == SelectSeq(entries, NotRunning)

\* the (project, local date) pair of an entry and of a summary
PairOfEntry(entry) == <<entry.project_id, JsStr(extractDate(entry.start))>>
PairOfSummary(summary) == <<summary.projectId, summary.date>>

SumDurations(group) ==
  LET F[i \in 0..Len(group)] == IF i = 0 THEN 0 ELSE F[i - 1] + group[i].duration
  IN F[Len(group)]

Abs(n) == IF n < 0 THEN 0 - n ELSE n

\* C1: running entries (duration < 0) change nothing: the flat list, the day
\* view and the project view are those of the list without them; a running
\* entry alone in its (project, date) pair gets no summary; an entry of
\* duration 0 is kept and has its summary.
C1_RunningEntriesChangeNothing ==
  LET clean == aggregateTimeEntries(NonRunningEntries, projectsMap)
  IN /\ pc # "fetched" =>
          /\ summaries = clean
          /\ \A g \in 1..Len(grouped) : \A j \in 1..Len(grouped[g].value) :
               grouped[g].value[j].duration >= 0
          /\ \A i \in 1..Len(entries) :
               /\ entries[i].duration = 0 =>
                    \E k \in 1..Len(summaries) :
                      PairOfSummary(summaries[k]) = PairOfEntry(entries[i])
               /\ (/\ entries[i].duration < 0
                   /\ \A j \in 1..Len(entries) :
                        entries[j].duration >= 0 => PairOfEntry(entries[j]) # PairOfEntry(entries[i]))
                  => \A k \in 1..Len(summaries) :
                       PairOfSummary(summaries[k]) # PairOfEntry(entries[i])
     /\ pc = "byDay" => daySummaries = organizeByDay(clean, allDates, dayNames)
     /\ pc = "byProject" => projectSummaries = organizeByProject(clean, allDates, dayNames)

C1_Witness ==
  /\ pc = "byProject"
  /\ projectSummaries # <<>>
  /\ \E i, j, k \in 1..Len(entries) :
       /\ entries[i].duration < 0
       /\ entries[j].duration = 0
       /\ entries[k].duration > 0
       /\ \A n \in 1..Len(entries) : n # i => PairOfEntry(entries[n]) # PairOfEntry(entries[i])

\* C2: the flat list has exactly one summary for every (project, local date)
\* pair of an entry with duration >= 0 and none for another pair, so no two
\* summaries share a pair.
C2_OneSummaryPerPair ==
  pc # "fetched" =>
    LET pairs == {PairOfEntry(entries[i]) :
                    i \in {n \in 1..Len(entries) : entries[n].duration >= 0}}
    IN /\ \A p \in pairs :
            Cardinality({k \in 1..Len(summaries) : PairOfSummary(summaries[k]) = p}) = 1
       /\ \A k \in 1..Len(summaries) : PairOfSummary(summaries[k]) \in pairs

C2_Witness ==
  /\ pc = "aggregated"
  /\ Len(summaries) = 2
  /\ \E i, j \in 1..Len(entries) :
       /\ i # j
       /\ entries[i].start # entries[j].start
       /\ entries[i].duration >= 0
       /\ entries[j].duration >= 0
       /\ PairOfEntry(entries[i]) = PairOfEntry(entries[j])

\* C3: the groups partition the entries with duration >= 0: each such entry
\* is in exactly one place of exactly one group, the entries of a group share
\* their (project, date) pair, two groups have different pairs, and a group
\* keeps its entries in input order.
C3_GroupsPartitionEntries ==
  pc # "fetched" =>
    LET places == {<<g, j>> \in (1..Len(grouped)) \X (1..Len(entries)) :
                     j <= Len(grouped[g].value)}
    IN /\ \A i \in 1..Len(entries) :
            entries[i].duration >= 0 =>
              Cardinality({pl \in places : grouped[pl[1]].value[pl[2]] = entries[i]}) = 1
       /\ \A pl \in places :
            /\ grouped[pl[1]].value[pl[2]] \in {entries[i] : i \in 1..Len(entries)}
            /\ PairOfEntry(grouped[pl[1]].value[pl[2]]) = PairOfEntry(grouped[pl[1]].value[1])
            /\ pl[2] > 1 => grouped[pl[1]].value[pl[2] - 1].id < grouped[pl[1]].value[pl[2]].id
       /\ \A g, h \in 1..Len(grouped) :
            /\ grouped[g].value # <<>>
            /\ g # h => PairOfEntry(grouped[g].value[1]) # PairOfEntry(grouped[h].value[1])

C3_Witness ==
  /\ pc = "aggregated"
  /\ Len(grouped) = 2
  /\ Len(grouped[1].value) = 1
  /\ Len(grouped[2].value) = 2
  /\ grouped[2].value[1].duration = 0
  /\ grouped[2].value[1].start # grouped[2].value[2].start

\* C4: totalHours of a summary, in hundredths of an hour, is the sum S of the
\* durations of its group divided by 36 and rounded to the nearest integer,
\* halves away from zero: floor((S + 18) / 36).
C4_TotalHoursRoundsHalfAway ==
  pc # "fetched" =>
    \A g \in 1..Len(summaries) :
      /\ summaries[g].totalHours >= 0
      /\ summaries[g].totalHours = (SumDurations(grouped[g].value) + 18) \div 36

\* C5 as stated: the sum of totalHours over the flat list is within one
\* hundredth of the rounding of the total duration.
SumOfTotalHours ==
  LET F[i \in 0..Len(summaries)] == IF i = 0 THEN 0 ELSE F[i - 1] + summaries[i].totalHours
  IN F[Len(summaries)]
RoundedGrandTotal == (SumDurations(NonRunningEntries) + 18) \div 36

C5_SumWithinOneUnit ==
  pc # "fetched" => Abs(SumOfTotalHours - RoundedGrandTotal) <= 1

\* C5 amended: with G summaries the two differ by at most (G + 1) / 2
\* hundredths.
C5_SumWithinHalfUnitPerGroup ==
  pc # "fetched" => 2 * Abs(SumOfTotalHours - RoundedGrandTotal) <= Len(summaries) + 1

C5_Witness ==
  /\ pc = "aggregated"
  /\ Len(summaries) = 4
  /\ Abs(SumOfTotalHours - RoundedGrandTotal) = 2

\* the pieces of a descriptions string: what stands between the separators
StartsWithSeparator(str) ==
  Len(str) >= Len(Separator) /\ SubSeq(str, 1, Len(Separator)) = Separator

RECURSIVE PiecesLoop(_, _, _)
PiecesLoop(str, cur, acc) ==
  IF str = <<>> THEN Append(acc, cur)
  ELSE IF StartsWithSeparator(str)
  THEN PiecesLoop(SubSeq(str, Len(Separator) + 1, Len(str)), <<>>, Append(acc, cur))
  ELSE PiecesLoop(Tail(str), Append(cur, Head(str)), acc)
PiecesOf(str) == IF str = <<>> THEN <<>> ELSE PiecesLoop(str, <<>>, <<>>)

\* an entry without description text: null, empty or whitespace only
IsBlank(entry) ==
  \/ entry.description = JsNull
  \/ \A i \in 1..Len(entry.description.s) : entry.description.s[i] \in WhiteSpace
HasText(entry) == ~IsBlank(entry)

\* the entries of a group whose description no earlier entry of the group has
FirstOccurrences(group) ==
  LET F[i \in 0..Len(group)] ==
        IF i = 0 THEN <<>>
        ELSE IF \E j \in 1..(i - 1) : group[j].description = group[i].description
        THEN F[i - 1]
        ELSE Append(F[i - 1], group[i])
  IN F[Len(group)]

\* the texts of the entries of a list, one after the other with the separator between
TextsJoined(list) ==
  LET F[i \in 0..Len(list)] ==
        IF i = 0 THEN <<>>
        ELSE IF i = 1 THEN list[1].description.s
        ELSE F[i - 1] \o Separator \o list[i].description.s
  IN F[Len(list)]

\* C6 as stated: no two pieces of a descriptions string are equal after
\* trimming surrounding whitespace.
C6_PiecesDistinctAfterTrim ==
  pc # "fetched" =>
    \A g \in 1..Len(summaries) :
      LET pieces == PiecesOf(summaries[g].descriptions)
      IN \A i, j \in 1..Len(pieces) : i # j => Trim(pieces[i]) # Trim(pieces[j])

\* C6 amended: deduplication is by equality of the descriptions as they are,
\* untrimmed: no two pieces are equal, and the pieces are exactly the
\* different texts of the group, so two descriptions that differ only in
\* surrounding whitespace give two pieces.
C6_PiecesDistinctUntrimmed ==
  pc # "fetched" =>
    \A g \in 1..Len(summaries) :
      LET pieces == PiecesOf(summaries[g].descriptions)
          group == grouped[g].value
      IN /\ \A i, j \in 1..Len(pieces) : i # j => pieces[i] # pieces[j]
         /\ {pieces[i] : i \in 1..Len(pieces)}
              = {group[i].description.s : i \in {n \in 1..Len(group) : HasText(group[n])}}

C6_Witness ==
  /\ pc = "aggregated"
  /\ Len(entries) = 3
  /\ Len(summaries) = 1
  /\ PiecesOf(summaries[1].descriptions) = <<DescA, DescSpaceA>>

\* C7: descriptions is the join, with " / \n" between and none before or
\* after, of the different descriptions of the group that have text, in the
\* order of their first occurrence; removing the later repetitions of a
\* description from the group gives the same string.
C7_FirstOccurrenceOrder ==
  pc # "fetched" =>
    \A g \in 1..Len(summaries) :
      LET firsts == FirstOccurrences(SelectSeq(grouped[g].value, HasText))
          text == summaries[g].descriptions
      IN /\ text = TextsJoined(firsts)
         /\ text = processDescriptions(FirstOccurrences(grouped[g].value))
         /\ ~StartsWithSeparator(text)
         /\ Len(text) >= Len(Separator) =>
              SubSeq(text, Len(text) - Len(Separator) + 1, Len(text)) # Separator

C7_Witness ==
  /\ pc = "aggregated"
  /\ Len(summaries) = 1
  /\ Len(entries) = 3
  /\ entries[1].description = JsStr(DescA)
  /\ entries[2].description = JsStr(DescB)
  /\ entries[3].description = JsStr(DescA)
  /\ summaries[1].descriptions = DescA \o Separator \o DescB

\* C8: an entry whose description is null or blank gives no piece and no
\* separator: the string is that of the group without such entries, it is
\* empty when every entry is such, and totalHours counts their durations.
C8_BlankDescriptionsContributeNothing ==
  pc # "fetched" =>
    \A g \in 1..Len(summaries) :
      LET group == grouped[g].value
          pieces == PiecesOf(summaries[g].descriptions)
      IN /\ summaries[g].descriptions = processDescriptions(SelectSeq(group, HasText))
         /\ \A i \in 1..Len(pieces) : Trim(pieces[i]) # <<>>
         /\ Len(pieces) <= Cardinality({i \in 1..Len(group) : HasText(group[i])})
         /\ (\A i \in 1..Len(group) : IsBlank(group[i])) => summaries[g].descriptions = <<>>
         /\ summaries[g].totalHours = RoundedHundredths(SumDurations(group))

C8_Witness ==
  /\ pc = "aggregated"
  /\ Len(summaries) = 1
  /\ Len(entries) = 3
  /\ entries[1].description = JsNull
  /\ entries[2].description = JsStr(<<>>)
  /\ entries[3].description = JsStr(DescBlank)
  /\ summaries[1].descriptions = <<>>
  /\ summaries[1].totalHours = 150

\* C9: a summary carries the project id of its entries, null exactly when they
\* have none; its name is the name of the lookup record of that id, and
\* "No Project" when the id is null or not in the lookup.
C9_ProjectNameFromLookup ==
  pc # "fetched" =>
    \A g \in 1..Len(summaries) :
      LET id == grouped[g].value[1].project_id
      IN /\ summaries[g].projectId = id
         /\ summaries[g].projectName =
              IF id # JsNull /\ id.n \in DOMAIN projectsMap
              THEN projectsMap[id.n].name
              ELSE NoProjectName

C9_Witness ==
  /\ pc = "aggregated"
  /\ \E a, b, c \in 1..Len(summaries) :
       /\ summaries[a].projectId = JsNull /\ summaries[a].projectName = NoProjectName
       /\ summaries[b].projectId = JsNum(12) /\ summaries[b].projectName = NoProjectName
       /\ summaries[c].projectId = JsNum(7) /\ summaries[c].projectName = Web

SetOf(seq) == {seq[i] : i \in 1..Len(seq)}

\* the flat summaries of a date (a date as the string of allDates)
SummariesOfDate(date) ==
  LET onDate(s) == s.date = JsStr(date) IN SelectSeq(summaries, onDate)

\* C11: for every record of the day view, projects holds exactly the flat
\* summaries of the record's date, each once (as many elements as there are
\* such summaries, all different) and none of another date, and no element
\* has a projectName that compares smaller than its predecessor's.
C11_DayHoldsItsSummariesByName ==
  pc = "byDay" =>
    \A i \in 1..Len(daySummaries) :
      LET projects == daySummaries[i].projects
          expected == SummariesOfDate(daySummaries[i].date)
      IN /\ SetOf(projects) = SetOf(expected)
         /\ Len(projects) = Len(expected)
         /\ \A j, k \in 1..Len(projects) : projects[j] = projects[k] => j = k
         /\ \A j \in 1..Len(projects) : projects[j].date = JsStr(daySummaries[i].date)
         /\ \A j \in 2..Len(projects) :
              LocaleCompare(projects[j - 1].projectName, projects[j].projectName) <= 0

\* a day with two summaries that the flat list holds in the other order, while
\* the flat list also has a summary of another date
C11_Witness ==
  /\ pc = "byDay"
  /\ \E i \in 1..Len(daySummaries) :
       /\ Len(daySummaries[i].projects) = 2
       /\ daySummaries[i].projects # SummariesOfDate(daySummaries[i].date)
       /\ LocaleCompare(daySummaries[i].projects[1].projectName,
                        daySummaries[i].projects[2].projectName) < 0
  /\ \E k \in 1..Len(summaries) : summaries[k].date = JsStr(<<"2", "0", "2", "6", "-", "0", "1", "-", "1", "2">>)


\* the flat summaries of a project id
SummariesOfProject(projectId) ==
  LET ofProject(s) == s.projectId = projectId IN SelectSeq(summaries, ofProject)

\* C12: every record of the project view has the project id of some flat
\* summary and at least one day; every day entry is a flat summary of that
\* project (its date, hours and descriptions); a project of the lookup without
\* flat summary has no record, and a date of allDates without flat summary is
\* the date of no day entry.
C12_NothingSynthesized ==
  pc = "byProject" =>
    /\ \A i \in 1..Len(projectSummaries) :
         LET ps == projectSummaries[i]
             flat == SummariesOfProject(ps.projectId)
         IN /\ flat # <<>>
            /\ ps.days # <<>>
            /\ \A j \in 1..Len(ps.days) :
                 \E k \in 1..Len(flat) :
                   /\ flat[k].date = ps.days[j].date
                   /\ flat[k].totalHours = ps.days[j].totalHours
                   /\ flat[k].descriptions = ps.days[j].descriptions
    /\ \A id \in DOMAIN projectsMap :
         SummariesOfProject(JsNum(id)) = <<>> =>
           \A i \in 1..Len(projectSummaries) : projectSummaries[i].projectId # JsNum(id)
    /\ \A d \in 1..Len(allDates) :
         SummariesOfDate(allDates[d]) = <<>> =>
           \A i \in 1..Len(projectSummaries) : \A j \in 1..Len(projectSummaries[i].days) :
             projectSummaries[i].days[j].date # JsStr(allDates[d])

\* a project view with records, while the lookup has a project without
\* entries and allDates has a date without entries
C12_Witness ==
  /\ pc = "byProject"
  /\ projectSummaries # <<>>
  /\ \E id \in DOMAIN projectsMap : SummariesOfProject(JsNum(id)) = <<>>
  /\ \E d \in 1..Len(allDates) : SummariesOfDate(allDates[d]) = <<>>


\* the (projectId, projectName) pairs of the flat list
ProjectPairs == {<<summaries[k].projectId, summaries[k].projectName>> : k \in 1..Len(summaries)}

SummariesOfPair(pair) ==
  LET ofPair(s) == <<s.projectId, s.projectName>> = pair IN SelectSeq(summaries, ofPair)

\* C13: the project view has as many records as the flat list has distinct
\* (projectId, projectName) pairs, and for every pair exactly one record has
\* the pair's project id; its days are the flat summaries of the pair, one
\* day each. All flat summaries with projectId null are the days of the one
\* record whose projectId is null.
C13_OneProjectSummaryPerPair ==
  pc = "byProject" =>
    /\ Len(projectSummaries) = Cardinality(ProjectPairs)
    /\ \A pair \in ProjectPairs :
         /\ Cardinality({i \in 1..Len(projectSummaries) :
                           projectSummaries[i].projectId = pair[1]}) = 1
         /\ \A i \in 1..Len(projectSummaries) :
              projectSummaries[i].projectId = pair[1] =>
                /\ Len(projectSummaries[i].days) = Len(SummariesOfPair(pair))
                /\ {projectSummaries[i].days[j].date : j \in 1..Len(projectSummaries[i].days)}
                     = {s.date : s \in SetOf(SummariesOfPair(pair))}
    /\ SummariesOfProject(JsNull) # <<>> =>
         \E i \in 1..Len(projectSummaries) :
           /\ projectSummaries[i].projectId = JsNull
           /\ Len(projectSummaries[i].days) = Len(SummariesOfProject(JsNull))
           /\ \A k \in 1..Len(projectSummaries) :
                projectSummaries[k].projectId = JsNull => k = i

\* "no project" summaries on two dates in one record, next to the record of
\* another project that is shown under the same name
C13_Witness ==
  /\ pc = "byProject"
  /\ \E i, k \in 1..Len(projectSummaries) :
       /\ projectSummaries[i].projectId = JsNull
       /\ Len(projectSummaries[i].days) = 2
       /\ projectSummaries[k].projectId # JsNull
       /\ projectSummaries[k].projectName = projectSummaries[i].projectName


\* a YYYY-MM-DD string denotes an earlier day than another: at the first
\* position where they differ the digit is smaller
IsoDateBefore(a, b) ==
  \E i \in 1..Len(a) :
    /\ i <= Len(b)
    /\ \A j \in 1..(i - 1) : a[j] = b[j]
    /\ IsDigit(a[i]) /\ IsDigit(b[i])
    /\ DigitVal(a[i]) < DigitVal(b[i])

\* the position in the flat list of the first summary of a project id
FirstOfProject(projectId) ==
  CHOOSE k \in 1..Len(summaries) :
    /\ summaries[k].projectId = projectId
    /\ \A n \in 1..(k - 1) : summaries[n].projectId # projectId

\* C14: in the project view the days of every record are in ascending order
\* of date (each day later than its predecessor) and no record has a
\* projectName that compares smaller than its predecessor's, whatever the
\* order of the flat list.
C14_DaysByDateProjectsByName ==
  pc = "byProject" =>
    /\ \A i \in 1..Len(projectSummaries) :
         \A j \in 2..Len(projectSummaries[i].days) :
           IsoDateBefore(projectSummaries[i].days[j - 1].date.s,
                         projectSummaries[i].days[j].date.s)
    /\ \A i \in 2..Len(projectSummaries) :
         LocaleCompare(projectSummaries[i - 1].projectName,
                       projectSummaries[i].projectName) <= 0

\* the flat list has a project's later date first and the project with the
\* greater name first; the view has them the other way round
C14_Witness ==
  /\ pc = "byProject"
  /\ \E i \in 1..Len(projectSummaries) :
       /\ Len(projectSummaries[i].days) = 2
       /\ summaries[FirstOfProject(projectSummaries[i].projectId)].date
            = projectSummaries[i].days[2].date
  /\ \E i \in 2..Len(projectSummaries) :
       /\ LocaleCompare(projectSummaries[i - 1].projectName,
                        projectSummaries[i].projectName) < 0
       /\ FirstOfProject(projectSummaries[i].projectId)
            < FirstOfProject(projectSummaries[i - 1].projectId)


\* the sum of the totalHours, in hundredths, of the days of a project record
SumOfDayHundredths(days) ==
  LET F[i \in 0..Len(days)] == IF i = 0 THEN 0 ELSE F[i - 1] + days[i].totalHours
  IN F[Len(days)]

\* C15: totalHours of every record of the project view, in hundredths of an
\* hour, is exactly the sum of the hundredths of its day entries: the sum of
\* the day values in double arithmetic, times 100 and rounded, loses nothing.
C15_ProjectTotalIsSumOfDays ==
  pc = "byProject" =>
    \A i \in 1..Len(projectSummaries) :
      projectSummaries[i].totalHours = SumOfDayHundredths(projectSummaries[i].days)

\* a record with two days of non-zero hours, and a record whose total 0.29 is
\* a double that times 100 is not the integer 29
C15_Witness ==
  /\ pc = "byProject"
  /\ \E i \in 1..Len(projectSummaries) :
       /\ Len(projectSummaries[i].days) = 2
       /\ \A j \in 1..2 : projectSummaries[i].days[j].totalHours > 0
  /\ \E i \in 1..Len(projectSummaries) :
       /\ projectSummaries[i].totalHours = 29
       /\ DoubleMul(DoubleDiv(29, 100), 100) # DoubleDiv(2900, 100)


\* the seconds of all non-running entries of a project, over all dates
DurationOfProject(projectId) ==
  LET ofProject(entry) == entry.project_id = projectId
  IN SumDurations(SelectSeq(NonRunningEntries, ofProject))

RoundedHalfAway(seconds) == (seconds + 18) \div 36

\* C16 as stated, for the project view: totalHours of every record is, in
\* hundredths, the duration of all non-running entries of the project over
\* all dates divided by 36 and rounded, halves away from zero.
C16_ProjectTotalRoundsItsDuration ==
  pc = "byProject" =>
    \A i \in 1..Len(projectSummaries) :
      projectSummaries[i].totalHours
        = RoundedHalfAway(DurationOfProject(projectSummaries[i].projectId))

\* C16 amended: totalHours of a flat summary is a hundredth nearest to the
\* duration of its group (at most half a hundredth off); totalHours of a
\* record of the project view is the sum of its day values, which is off the
\* rounding of the project's duration by at most (D + 1) / 2 hundredths, D
\* being the number of its days.
C16_ProjectTotalWithinHalfUnitPerDay ==
  /\ pc # "fetched" =>
       \A g \in 1..Len(summaries) :
         2 * Abs(36 * summaries[g].totalHours - SumDurations(grouped[g].value)) <= 36
  /\ pc = "byProject" =>
       \A i \in 1..Len(projectSummaries) :
         LET ps == projectSummaries[i]
         IN /\ ps.totalHours = SumOfDayHundredths(ps.days)
            /\ 2 * Abs(ps.totalHours - RoundedHalfAway(DurationOfProject(ps.projectId)))
                 <= Len(ps.days) + 1

\* a project with 18 s on each of two days: 0.01 + 0.01 = 0.02 hours, while
\* its 36 s are 0.01 hours
C16_Witness ==
  /\ pc = "byProject"
  /\ \E i \in 1..Len(projectSummaries) :
       /\ Len(projectSummaries[i].days) = 2
       /\ projectSummaries[i].totalHours = 2
       /\ RoundedHalfAway(DurationOfProject(projectSummaries[i].projectId)) = 1


\* the entries with those at positions i and i + 1 exchanged
SwapAt(list, i) ==
  [k \in 1..Len(list) |-> IF k = i THEN list[i + 1] ELSE IF k = i + 1 THEN list[i] ELSE list[k]]

\* the two views of a list of entries, for the lookup and the dates of the state
DayViewOf(list) == organizeByDay(aggregateTimeEntries(list, projectsMap), allDates, dayNames)
ProjectViewOf(list) == organizeByProject(aggregateTimeEntries(list, projectsMap), allDates, dayNames)

\* C17 as stated: the views of the same entries in another order (two
\* neighbours exchanged, which generates every order) are identical to the
\* views of the state, descriptions and order of equal names included.
C17_ViewsIndependentOfEntryOrder ==
  /\ pc = "byDay" =>
       \A i \in 1..(Len(entries) - 1) : DayViewOf(SwapAt(entries, i)) = daySummaries
  /\ pc = "byProject" =>
       \A i \in 1..(Len(entries) - 1) : ProjectViewOf(SwapAt(entries, i)) = projectSummaries

\* a view without what follows the order of the entries: descriptions as the
\* set of its pieces, the summaries of a day and the records of the project
\* view as sets, next to the sequence of their names
WithPieceSet(record) ==
  [record EXCEPT !.descriptions = SetOf(PiecesOf(record.descriptions))]

DayViewUpToOrder(view) ==
  [i \in 1..Len(view) |->
     [date |-> view[i].date,
      dayName |-> view[i].dayName,
      names |-> [j \in 1..Len(view[i].projects) |-> view[i].projects[j].projectName],
      projects |-> {WithPieceSet(view[i].projects[j]) : j \in 1..Len(view[i].projects)}]]

ProjectViewUpToOrder(view) ==
  [names |-> [i \in 1..Len(view) |-> view[i].projectName],
   records |-> {[view[i] EXCEPT !.days = [j \in 1..Len(view[i].days) |->
                                           WithPieceSet(view[i].days[j])]] :
                  i \in 1..Len(view)}]

\* C17 amended: the views of the same entries in another order are the same
\* up to the order of the pieces inside a descriptions string and the
\* relative order of summaries or records with equal projectName: the same
\* dates and day names, the same sequence of names, the same ids, totals and
\* days, and the same set of description pieces.
C17_ViewsSameUpToOrderOfTies ==
  /\ pc = "byDay" =>
       \A i \in 1..(Len(entries) - 1) :
         DayViewUpToOrder(DayViewOf(SwapAt(entries, i))) = DayViewUpToOrder(daySummaries)
  /\ pc = "byProject" =>
       \A i \in 1..(Len(entries) - 1) :
         ProjectViewUpToOrder(ProjectViewOf(SwapAt(entries, i)))
           = ProjectViewUpToOrder(projectSummaries)

\* a project view in which two records have the same name, and which is
\* another one when two entries change places; a day with two pieces of
\* description likewise
C17_Witness ==
  /\ pc = "byProject"
  /\ \E i, k \in 1..Len(projectSummaries) :
       i # k /\ projectSummaries[i].projectName = projectSummaries[k].projectName
  /\ \E i \in 1..Len(projectSummaries) : \E j \in 1..Len(projectSummaries[i].days) :
       Len(PiecesOf(projectSummaries[i].days[j].descriptions)) = 2
  /\ \E i \in 1..(Len(entries) - 1) : ProjectViewOf(SwapAt(entries, i)) # projectSummaries


\* no entry or running entries only
NothingToAggregate == \A i \in 1..Len(entries) : entries[i].duration < 0

\* C18: with an empty entry list, or one of running entries only, the flat
\* list is empty, the day view has one record per date of allDates, in their
\* order, each with empty projects, and the project view is empty; each
\* function returns a value.
C18_NothingInNothingOut ==
  NothingToAggregate =>
    /\ pc # "fetched" => summaries = <<>> /\ grouped = <<>>
    /\ pc = "byDay" =>
         /\ Len(daySummaries) = Len(allDates)
         /\ \A i \in 1..Len(allDates) :
              /\ daySummaries[i].date = allDates[i]
              /\ daySummaries[i].projects = <<>>
    /\ pc = "byProject" => projectSummaries = <<>>

\* the day view of two dates for running entries only
C18_Witness ==
  /\ NothingToAggregate
  /\ entries # <<>>
  /\ pc = "byDay"
  /\ Len(daySummaries) = 2


(***************************************************************************)
(* The copy script                                                         *)
(***************************************************************************)
\* click k is a click on a card (outside its badge)
IsCardClick(k) == clickLog[k].target = "card"

\* no click on the element of click k in the second before it
FirstClick(k) ==
  \A j \in 1..(k - 1) :
    clickLog[j].card = clickLog[k].card => clickLog[k].at - clickLog[j].at >= ClickWindow

\* click k is the next click on its card after a first click on it, less than
\* a second later
SecondClick(k) ==
  \E j \in 1..(k - 1) :
    /\ IsCardClick(j) /\ clickLog[j].card = clickLog[k].card /\ FirstClick(j)
    /\ clickLog[k].at - clickLog[j].at < ClickWindow
    /\ \A n \in (j + 1)..(k - 1) : clickLog[n].card # clickLog[k].card

\* C19: a click on a card that had no click in the second before puts the
\* time of the card on the clipboard, and the next click on the card, less
\* than a second after that one, puts its description there.
C19_TimeThenDescription ==
  \A k \in 1..Len(clickLog) :
    IsCardClick(k) =>
      /\ FirstClick(k) => clickLog[k].clipboard = JsStr(cards[clickLog[k].card].time)
      /\ SecondClick(k) => clickLog[k].clipboard = JsStr(cards[clickLog[k].card].description)


\* the step is a click on a badge
BadgeClicked ==
  /\ Len(clickLog') = Len(clickLog) + 1
  /\ clickLog'[Len(clickLog')].target = "badge"

\* C20: a click on a time badge puts the badge's decimal hours on the
\* clipboard and not the description, shows its message on the badge (the
\* listener of the card does not run), and leaves the click state of every
\* card as it was: clickState with the recorded first-click times, and the
\* pending reset timers.
C20_BadgeClickCopiesTimeOnly ==
  [][BadgeClicked =>
       LET i == clickLog'[Len(clickLog')].card
       IN /\ clipboard' = JsStr(cards[i].badge.time)
          /\ clipboard' # JsStr(cards[i].description)
          /\ feedback' = <<"badge", i, "Time copied!">>
          /\ clickState' = clickState
          /\ timers' = timers
          /\ nextTimer' = nextTimer]_vars

\* a badge was clicked half a second after a first click on its card, while
\* the card's state is recorded and its reset timer pending
C20_Witness ==
  /\ Len(clickLog) >= 2
  /\ LET k == Len(clickLog)
         i == clickLog[k].card
     IN /\ clickLog[k].target = "badge"
        /\ IsCardClick(k - 1) /\ clickLog[k - 1].card = i
        /\ clickLog[k].at - clickLog[k - 1].at < ClickWindow
        /\ MapHas(clickState, cards[i].id)
        /\ \E t \in timers : t.elementId = cards[i].id
        /\ clipboard = JsStr(cards[i].badge.time)
        /\ clickLog[k - 1].clipboard = JsStr(cards[i].description)

(***************************************************************************)
(* The date range                                                          *)
(***************************************************************************)
\* the local calendar day (days since 1970-01-01) of a Date, and of a date string
LocalDay(date) == LocalTime(date).day
DayOfString(dateStr) == LocalDay(NewLocalDate(dateStr))

\* the request asks for last week
AsksLastWeek == dateRange # <<>> /\ query.range \in {"", "last-week"}

\* C21: whatever the day of the week, the range of last week starts on a
\* Monday, ends 6 days later, starts exactly 7 days before the current
\* calendar week of the same day, and does not contain today.
C21_LastWeekPrecedesCurrentWeek ==
  AsksLastWeek =>
    LET start == NewLocalDate(dateRange.start)
        end == NewLocalDate(dateRange.end)
        thisMonday == DayOfString(getCurrentCalendarWeek(today).start)
    IN /\ GetDay(start) = 1
       /\ LocalDay(end) = LocalDay(start) + 6
       /\ LocalDay(start) = thisMonday - 7
       /\ ~(LocalDay(start) <= LocalDay(today) /\ LocalDay(today) <= LocalDay(end))

\* what does hold of last week on every day: Monday to Sunday
C21_LastWeekIsMondayToSunday ==
  AsksLastWeek =>
    /\ GetDay(NewLocalDate(dateRange.start)) = 1
    /\ DayOfString(dateRange.end) = DayOfString(dateRange.start) + 6

\* from Monday to Saturday the claim holds in full
C21_LastWeekOnWeekdays ==
  (AsksLastWeek /\ GetDay(today) # 0) => C21_LastWeekPrecedesCurrentWeek

(***************************************************************************)
(* More on the project view                                                *)
(***************************************************************************)
\* C22: every record of the project view has the projectId and the whole
\* projectName of the flat summaries that are its days, also when the name
\* contains "|".
C22_RecordKeepsIdAndName ==
  pc = "byProject" =>
    \A i \in 1..Len(projectSummaries) :
      LET ps == projectSummaries[i]
      IN \A j \in 1..Len(ps.days) :
           \E k \in 1..Len(summaries) :
             /\ summaries[k].projectId = ps.projectId
             /\ summaries[k].projectName = ps.projectName
             /\ summaries[k].date = ps.days[j].date

\* what holds of every name: the projectId is kept, and the name is kept up
\* to its first "|"
C22_RecordKeepsIdAndNameUpToBar ==
  pc = "byProject" =>
    \A i \in 1..Len(projectSummaries) :
      LET ps == projectSummaries[i]
      IN \A j \in 1..Len(ps.days) :
           \E k \in 1..Len(summaries) :
             /\ summaries[k].projectId = ps.projectId
             /\ ElementAt(Split(summaries[k].projectName, "|"), 1) = JsStr(ps.projectName)
             /\ summaries[k].date = ps.days[j].date

\* no date twice in the date list
NoRepeatedDate == \A i, j \in 1..Len(allDates) : allDates[i] = allDates[j] => i = j

\* where a flat summary stands in the day view
PlacesInDayView(summary) ==
  {<<i, j>> \in (1..Len(daySummaries)) \X (1..Len(summaries)) :
     /\ j <= Len(daySummaries[i].projects)
     /\ daySummaries[i].projects[j] = summary}

\* the project view of the inputs of the state
ProjectViewOfState == organizeByProject(summaries, allDates, dayNames)

\* the hundredths of an hour a view shows in all
DayViewTotal ==
  LET F[i \in 0..Len(daySummaries)] ==
        IF i = 0 THEN 0 ELSE F[i - 1] + SumOfDayHundredths(daySummaries[i].projects)
  IN F[Len(daySummaries)]

ProjectViewTotal ==
  LET view == ProjectViewOfState
      F[i \in 0..Len(view)] == IF i = 0 THEN 0 ELSE F[i - 1] + SumOfDayHundredths(view[i].days)
  IN F[Len(view)]

\* C23: when the date list has no date twice, a flat summary with a date of
\* the list stands in the day view exactly once, in the record of its date; a
\* flat summary with another date stands nowhere in the day view, while the
\* project view of the same inputs has a day entry for it.
C23_DayPivotConservation ==
  (pc = "byDay" /\ NoRepeatedDate) =>
    \A k \in 1..Len(summaries) :
      LET summary == summaries[k]
          places == PlacesInDayView(summary)
          view == ProjectViewOfState
      IN IF \E d \in 1..Len(allDates) : JsStr(allDates[d]) = summary.date
         THEN /\ Cardinality(places) = 1
              /\ \A place \in places : JsStr(daySummaries[place[1]].date) = summary.date
         ELSE /\ places = {}
              /\ \E i \in 1..Len(view) :
                   /\ view[i].projectId = summary.projectId
                   /\ \E j \in 1..Len(view[i].days) :
                        /\ view[i].days[j].date = summary.date
                        /\ view[i].days[j].totalHours = summary.totalHours

\* a day view of two dates with a summary on one of them and a summary outside
\* the list: the two views differ in their grand total
C23_Witness ==
  /\ pc = "byDay"
  /\ NoRepeatedDate
  /\ Len(allDates) = 2
  /\ \E k \in 1..Len(summaries) : PlacesInDayView(summaries[k]) = {}
  /\ \E k \in 1..Len(summaries) : PlacesInDayView(summaries[k]) # {}
  /\ DayViewTotal < ProjectViewTotal

\* where a flat summary stands in the project view: the day entries of its
\* date in the records of its project id
PlacesInProjectView(summary) ==
  {<<i, j>> \in (1..Len(projectSummaries)) \X (1..Len(summaries)) :
     /\ j <= Len(projectSummaries[i].days)
     /\ projectSummaries[i].projectId = summary.projectId
     /\ projectSummaries[i].days[j].date = summary.date}

\* the number of day entries of the project view
DayEntryCount ==
  LET F[i \in 0..Len(projectSummaries)] ==
        IF i = 0 THEN 0 ELSE F[i - 1] + Len(projectSummaries[i].days)
  IN F[Len(projectSummaries)]

\* C24: in the project view of the flat list, every flat summary is exactly
\* one day entry of exactly one record, with its date, totalHours and
\* descriptions; there are as many day entries as flat summaries; and within
\* a record every day entry has a later date than its predecessor.
C24_ProjectPivotConservation ==
  pc = "byProject" =>
    /\ \A k \in 1..Len(summaries) :
         LET places == PlacesInProjectView(summaries[k])
         IN /\ Cardinality(places) = 1
            /\ \A place \in places :
                 LET day == projectSummaries[place[1]].days[place[2]]
                 IN /\ day.totalHours = summaries[k].totalHours
                    /\ day.descriptions = summaries[k].descriptions
    /\ DayEntryCount = Len(summaries)
    /\ \A i \in 1..Len(projectSummaries) :
         \A j, n \in 1..Len(projectSummaries[i].days) :
           j < n => IsoDateBefore(projectSummaries[i].days[j].date.s,
                                  projectSummaries[i].days[n].date.s)

\* three flat summaries: two dates of one project, and another project on one
\* of these dates
C24_Witness ==
  /\ pc = "byProject"
  /\ Len(summaries) = 3
  /\ Len(projectSummaries) = 2
  /\ \E i \in 1..2 : Len(projectSummaries[i].days) = 2
  /\ \E i, k \in 1..3 : i # k /\ summaries[i].date = summaries[k].date

(***************************************************************************)
(* Projects under the placeholder name                                     *)
(***************************************************************************)
\* a project id that gets the placeholder name: null, or not in the lookup
IsNameless(projectId) == projectId = JsNull \/ projectId.n \notin DOMAIN projectsMap

\* the nameless project ids of the finished entries of a date, and of all
NamelessIdsOn(date) ==
  {entries[e].project_id : e \in {x \in 1..Len(entries) :
     /\ ~IsRunning(entries[x])
     /\ JsStr(extractDate(entries[x].start)) = date
     /\ IsNameless(entries[x].project_id)}}

NamelessIds ==
  {entries[e].project_id : e \in {x \in 1..Len(entries) :
     ~IsRunning(entries[x]) /\ IsNameless(entries[x].project_id)}}

\* C25: records named "No Project" are kept apart by id. The flat list has,
\* for every date and every nameless id with finished entries on it, exactly
\* one summary, named "No Project"; the project view has exactly one record
\* per nameless id, named "No Project", and no other record of that name; a
\* day of the day view has one project of that name per nameless id.
C25_NamelessProjectsKeptApart ==
  /\ pc # "fetched" =>
       \A k \in 1..Len(summaries) :
         \A id \in NamelessIdsOn(summaries[k].date) :
           /\ Cardinality({n \in 1..Len(summaries) :
                 summaries[n].projectId = id /\ summaries[n].date = summaries[k].date}) = 1
           /\ \A n \in 1..Len(summaries) :
                summaries[n].projectId = id => summaries[n].projectName = NoProjectName
  /\ pc = "byProject" =>
       /\ \A id \in NamelessIds :
            Cardinality({i \in 1..Len(projectSummaries) :
              /\ projectSummaries[i].projectId = id
              /\ projectSummaries[i].projectName = NoProjectName}) = 1
       /\ Cardinality({i \in 1..Len(projectSummaries) :
            projectSummaries[i].projectName = NoProjectName}) = Cardinality(NamelessIds)
  /\ pc = "byDay" =>
       \A i \in 1..Len(daySummaries) :
         Cardinality({j \in 1..Len(daySummaries[i].projects) :
           daySummaries[i].projects[j].projectName = NoProjectName})
           = Cardinality(NamelessIdsOn(JsStr(daySummaries[i].date)))

\* three records named "No Project" in the project view: no id, and two ids
\* the lookup does not have
C25_Witness ==
  /\ pc = "byProject"
  /\ Len(projectSummaries) = 3
  /\ \A i \in 1..3 : projectSummaries[i].projectName = NoProjectName
  /\ \E i \in 1..3 : projectSummaries[i].projectId = JsNull
  /\ \E i \in 1..3 : projectSummaries[i].projectId = JsNum(7)
  /\ \E i \in 1..3 : projectSummaries[i].projectId = JsNum(12)

(***************************************************************************)
(* The click state of the cards                                            *)
(***************************************************************************)
\* every element of the page has a data-id of its own
C26_DataIdsDiffer == \A i, j \in 1..Len(cards) : cards[i].id = cards[j].id => i = j

\* the last click was on a card never clicked before, less than a second
\* after a click on another card
ClickAfterOtherCard ==
  LET k == Len(clickLog)
  IN /\ k >= 2
     /\ IsCardClick(k) /\ IsCardClick(k - 1)
     /\ clickLog[k].card # clickLog[k - 1].card
     /\ clickLog[k].at - clickLog[k - 1].at < ClickWindow
     /\ \A n \in 1..(k - 1) : IsCardClick(n) => clickLog[n].card # clickLog[k].card

\* such a click is handled as a first click of its card
C26_ClickOnOtherCardIsFirstClick ==
  ClickAfterOtherCard => feedback[3] = "Description copied!"

\* C26: in every page the data-ids of the clickable elements are pairwise
\* different, and a click on a card less than a second after a click on
\* another card is handled as the first click of its card, also in the
\* project view with two records of the same projectName.
C26_ClickStatePerCard == C26_DataIdsDiffer /\ C26_ClickOnOtherCardIsFirstClick

\* in the day view the claim holds
C26_ClickStatePerCardInDayView == daySummaries # <<>> => C26_ClickStatePerCard

\* the clicks on cards that open a window of their card: the first click on
\* the card, and every click on it a second or more after the click that
\* opened the window before
Opens ==
  LET F[k \in 0..Len(clickLog)] ==
        IF k = 0 THEN FALSE
        ELSE LET before == {j \in 1..(k - 1) :
                              IsCardClick(j) /\ clickLog[j].card = clickLog[k].card /\ F[j]}
                 opener == CHOOSE j \in before : \A n \in before : n <= j
             IN IsCardClick(k)
                  /\ (before = {} \/ clickLog[k].at - clickLog[opener].at >= ClickWindow)
  IN F

\* the last click was on a card
LastClickOnCard == clickLog # <<>> /\ IsCardClick(Len(clickLog))

\* a click that opens a window is handled as a first click, every other click
\* on a card as a second click
C27_WindowRestarts ==
  LastClickOnCard =>
    feedback[3] = IF Opens[Len(clickLog)] THEN "Description copied!" ELSE "Time copied!"

\* after a click on a card the clipboard has the time or the description of
\* the card
C27_NoClickIgnored ==
  LastClickOnCard =>
    LET k == Len(clickLog)
        card == cards[clickLog[k].card]
    IN clickLog[k].clipboard \in {JsStr(card.time), JsStr(card.description)}

\* C27: a click on a card a second or more after the click that opened the
\* window of the card is handled as a first click again and opens a new
\* window, whether or not the card was clicked in between; every other click
\* within a window is handled as a second click; and every click on a card
\* puts the time or the description of the card on the clipboard.
C27_TwoClickWindow == C27_WindowRestarts /\ C27_NoClickIgnored

\* in the day view the windows are as claimed, and a click is without effect
\* on the clipboard only as the first click on a card without description
C27_TwoClickWindowInDayView ==
  (daySummaries # <<>> /\ LastClickOnCard) =>
    /\ C27_WindowRestarts
    /\ LET k == Len(clickLog)
           card == cards[clickLog[k].card]
       IN ~(Opens[k] /\ card.description = <<>>) => C27_NoClickIgnored

\* a card is clicked three times: the second click within the window of the
\* first, the third a second after the first
C27_WindowReopened ==
  /\ daySummaries # <<>>
  /\ Len(clickLog) = 3
  /\ \A k \in 1..3 : IsCardClick(k) /\ clickLog[k].card = clickLog[1].card
  /\ Opens[1] /\ ~Opens[2] /\ Opens[3]

(***************************************************************************)
(* The dates of the range                                                  *)
(***************************************************************************)
\* the request has its date list
HasDates == pc \in {"ranged", "byDay", "byProject"}

\* start and end of the range are dates
RangeOfDates ==
  /\ IsValidDate(NewLocalDate(dateRange.start))
  /\ IsValidDate(NewLocalDate(dateRange.end))

\* the date strings of the days first..last, in this order
DatesFromTo(first, last) ==
  [i \in 1..(IF first <= last THEN last - first + 1 ELSE 0) |-> DateString(first + i - 1)]

\* the loop of getDatesInRange comes to its end
C28_Terminates == (pc = "dates") ~> (pc = "ranged")

\* the list is the dates from start to end, none when start is after end, and
\* then the day view has no record
C28_ListIsStartToEnd ==
  (HasDates /\ RangeOfDates) =>
    LET first == DayOfString(dateRange.start)
        last == DayOfString(dateRange.end)
    IN /\ allDates = DatesFromTo(first, last)
       /\ (last < first /\ pc = "byDay") => daySummaries = <<>>

\* C28: getDatesInRange terminates, and for dates start and end it returns
\* the calendar dates from start to end, both included, in ascending order and
\* each once (end - start + 1 dates), and the empty list when start is after
\* end, for which organizeByDay returns no record.
C28_DatesInRange == C28_Terminates /\ []C28_ListIsStartToEnd

\* what holds in every timezone: the loop terminates, and the list is the
\* dates from start on without gap, up to end or the day before end
C28_DatesInEveryZone ==
  /\ C28_Terminates
  /\ []((HasDates /\ RangeOfDates) =>
          LET first == DayOfString(dateRange.start)
              last == DayOfString(dateRange.end)
          IN allDates \in {DatesFromTo(first, last), DatesFromTo(first, last - 1)})

\* in a timezone without change of offset the claim holds
C28_DatesInFixedZone ==
  /\ C28_Terminates
  /\ [](zone = FixedZone => C28_ListIsStartToEnd)
====
